---- MODULE Spec2Model ----
(***************************************************************************)
(* A model of the master-image target of the LAVA dispatcher               *)
(* (lava_dispatcher/device/master.py): the boot state machine that brings  *)
(* a board into its master image, the resolution and rewriting of the      *)
(* bootloader commands, and the deployment entry points that use them.     *)
(***************************************************************************)
EXTENDS Integers, Sequences, FiniteSets, TLC

(***************************************************************************)
(* Bounds of the model.                                                    *)
(***************************************************************************)
\* largest configured boot_retries that is explored
MaxRetries == 3
\* largest number of command lines in a boot-command blob
MaxLines == 9
\* largest configured testboot_offset that is explored
MaxOffset == 1

(***************************************************************************)
(* Program constants.                                                      *)
(***************************************************************************)
\* re.MULTILINE, which _rewrite_boot_cmds passes as the 4th positional
\* argument of re.sub, i.e. as its `count`
RE_MULTILINE == 8
\* timeout of the expect in _soft_reboot
SoftRebootTimeout == 120
\* timeout of both waits of _wait_for_master_boot
MasterBootTimeout == 300
\* timeout of the expect for MASTER_PS1_PATTERN in boot_master_image
PS1Timeout == 120
\* timeout of the prompt probe of _as_master
ProbeTimeout == 10
\* timeout of the proxy export in boot_master_image
ProxyTimeout == 30

None == "None"
\* no boot commands: None where a list of command lines may stand
NoCmds == <<>>

(***************************************************************************)
(* Boot-command text.  A blob is a sequence of tokens; a token is a        *)
(* whitespace character, a word, a kernel argument root=UUID=..., the      *)
(* kernel argument root=LABEL=testrootfs, or a partition reference         *)
(* <major>:<minor>.  Tokens other than whitespace hold no whitespace.      *)
(***************************************************************************)
Tok(k, maj, min) == [k |-> k, maj |-> maj, min |-> min]
SP == Tok("sp", 0, 0)
NL == Tok("nl", 0, 0)
Word(w) == Tok(w, 0, 0)
UuidArg == Tok("root=UUID=", 0, 0)
LabelArg == Tok("root=LABEL=testrootfs", 0, 0)
PartRef(maj, min) == Tok("part", maj, min)

\* \s of the regular expressions
IsSpace(t) == t.k \in {"sp", "nl"}
\* \d+:\d+ standing alone between whitespace
IsPartRef(t) == t.k = "part"
\* root=UUID=\S+
IsUuidArg(t) == t.k = "root=UUID="

\* re.sub(r"root=UUID=\S+", "root=LABEL=testrootfs", s, count): the leftmost
\* `count` matches are replaced, the rest of the text is copied.
RECURSIVE SubUuid(_, _)
SubUuid(s, count) ==
    IF s = <<>> THEN <<>>
    ELSE IF IsUuidArg(Head(s)) /\ count > 0
         THEN <<LabelArg>> \o SubUuid(Tail(s), count - 1)
         ELSE <<Head(s)>> \o SubUuid(Tail(s), count)

\* length of the maximal run of whitespace of s that starts at index i
RECURSIVE SpaceRun(_, _)
SpaceRun(s, i) ==
    IF i <= Len(s) /\ IsSpace(s[i]) THEN 1 + SpaceRun(s, i + 1) ELSE 0

\* number of tokens "\s+\d+:(?P<partition>\d+)\s+" matches at index i of s
\* (0: no match).  Both \s+ are greedy, so a match takes the whole runs.
PartMatchLen(s, i) ==
    LET a == SpaceRun(s, i)
        j == i + a
    IN  IF a > 0 /\ j <= Len(s) /\ IsPartRef(s[j]) /\ SpaceRun(s, j + 1) > 0
        THEN a + 1 + SpaceRun(s, j + 1)
        ELSE 0

\* _rewrite_partition_number: ' ' + boot_device + ':' + (partition + offset) + ' '
RewritePartitionNumber(t, bootDevice, offset) ==
    <<SP, PartRef(bootDevice, t.min + offset), SP>>

\* re.sub(pattern, self._rewrite_partition_number, s, count), scanning from i
RECURSIVE SubPart(_, _, _, _, _)
SubPart(s, i, count, bootDevice, offset) ==
    IF i > Len(s) THEN <<>>
    ELSE LET n == IF count > 0 THEN PartMatchLen(s, i) ELSE 0
         IN  IF n > 0
             THEN RewritePartitionNumber(s[i + SpaceRun(s, i)], bootDevice, offset)
                  \o SubPart(s, i + n, count - 1, bootDevice, offset)
             ELSE <<s[i]>> \o SubPart(s, i + 1, count, bootDevice, offset)

\* str.split('\n'): the lines of a text, without their newlines
RECURSIVE SplitLines(_, _)
SplitLines(s, cur) ==
    IF s = <<>> THEN <<cur>>
    ELSE IF Head(s) = NL
         THEN <<cur>> \o SplitLines(Tail(s), <<>>)
         ELSE SplitLines(Tail(s), Append(cur, Head(s)))

\* _rewrite_boot_cmds: both substitutions over the whole blob, re.MULTILINE
\* being passed where re.sub takes its count, then the split into lines
RewriteBootCmds(blob, bootDevice, offset) ==
    SplitLines(SubPart(SubUuid(blob, RE_MULTILINE), 1, RE_MULTILINE,
                       bootDevice, offset), <<>>)

(***************************************************************************)
(* State.                                                                  *)
(***************************************************************************)
VARIABLES
    config,             \* device and dispatcher configuration (read-only)
    pc,                 \* position of the single sequential control flow
    stack,              \* where the calls in progress return to
    attempts,           \* boot_master_image: local `attempts`
    in_master_image,    \* boot_master_image: local `in_master_image`
    master_ip,          \* MasterImageTarget.master_ip
    device_version,     \* MasterImageTarget.device_version
    boot_cmds_dynamic,  \* MasterImageTarget.__boot_cmds_dynamic__
    loggedAttempt,      \* number in the last "Attempt: %d" log line
    softSent,           \* soft-reboot commands sent by the operation
    hardSent,           \* hard resets issued by the operation
    softLog,            \* per attempt, how its soft-reboot path ended
    hardLog,            \* per hard reset, how its path ended
    probe,              \* result of the prompt probe of _as_master
    awaitTimeout,       \* timeout given to the last await
    exc,                \* exception that left the operation
    cause,              \* step whose failure produced exc
    cacheWrites,        \* assignments made to __boot_cmds_dynamic__
    lastRead,           \* arguments of the last _read_boot_cmds call
    boot_file,          \* content of the boot file an image is built with
    boot_in,            \* what the job gives _boot_linaro_image
    boot_cmds,          \* _boot_linaro_image: local `boot_cmds`
    sent_cmds,          \* boot commands handed to the bootloader
    url,                \* target_extract: argument `tar_url`
    num_retry,          \* target_extract: local `num_retry`
    console,            \* what the operation sent to the device and slept
    teBase,             \* length of console when target_extract was entered
    pending,            \* exception in flight while finally blocks run
    op,                 \* the operation the dispatcher started
    run_in,             \* arguments of the last CommandRunner.run call
    run_out,            \* what that call did: match, exit code, outcome
    clock,              \* time.time(), in seconds since the operation began
    deadline,           \* wait_network_up: now + timeout
    probes,             \* reachability probes sent by wait_network_up
    label,              \* has_partition_with_label: argument `label`
    xchg,               \* file_system: the directory, its archives and copies
    parts,              \* labels of the partitions the device has
    sub,                \* cmd_submit_results.run: inputs, locals, effects
    note                \* async_send_notifications: database, tasks, mails

vars == <<config, pc, stack, attempts, in_master_image, master_ip,
          device_version, boot_cmds_dynamic, loggedAttempt, softSent,
          hardSent, softLog, hardLog, probe, awaitTimeout, exc, cause,
          cacheWrites, lastRead, boot_file, boot_in, boot_cmds, sent_cmds,
          url, num_retry, console, teBase, pending, op, run_in, run_out,
          clock, deadline, probes, label, xchg, parts, sub, note>>

\* what the operations on the device leave alone: the configuration, the
\* result submission and the notification task
fixed == <<config, sub, note>>

\* state of the operations modelled further down: tarball transfer, file
\* exchange, command runner and network wait
extVars == <<url, num_retry, console, teBase, pending, op, run_in, run_out,
             clock, deadline, probes, label, xchg, parts>>
\* the same without the trace of what was sent
extRest == <<url, num_retry, teBase, pending, op, run_in, run_out, clock,
             deadline, probes, label, xchg, parts>>
targetVars == <<master_ip, device_version, boot_cmds_dynamic>>
localVars == <<attempts, in_master_image>>
imageVars == <<cacheWrites, lastRead, boot_file, boot_in, boot_cmds, sent_cmds>>
histVars == <<loggedAttempt, softSent, hardSent, softLog, hardLog, probe,
              awaitTimeout>>

Configs ==
    [boot_retries : 1..MaxRetries,
     lava_proxy : BOOLEAN,
     read_boot_cmds_from_image : BOOLEAN,
     boot_device : {0},
     testboot_offset : 0..MaxOffset]

\* what an await on the console ends with
AwaitResults == {"match", "timeout", "eof"}

\* pexpect's expect() with only real patterns in its list: a timeout raises
\* pexpect.TIMEOUT, a closed stream raises pexpect.EOF
Expect(r) ==
    IF r = "match" THEN "ok" ELSE IF r = "timeout" THEN "TIMEOUT" ELSE "EOF"

\* _soft_reboot's expect lists pexpect.TIMEOUT as pattern 0 and raises
\* OperationFailed when that is the match; a closed stream still raises
SoftRebootResult(r) ==
    IF r = "match" THEN "ok"
    ELSE IF r = "timeout" THEN "OperationFailed" ELSE "EOF"

\* except (OperationFailed, pexpect.TIMEOUT) of the reboot steps
CaughtByRebootHandler(e) == e \in {"OperationFailed", "TIMEOUT"}
\* except pexpect.TIMEOUT of the PS1 step
CaughtByPS1Handler(e) == e = "TIMEOUT"
\* except NetworkError of the network step
CaughtByNetworkHandler(e) == e = "NetworkError"

\* `fmt % e` with e a single exception object: Python raises TypeError
\* ("not all arguments converted during string formatting") unless the
\* format string has exactly one conversion specifier
PercentFormat(nSpecifiers) == IF nSpecifiers = 1 THEN "ok" ELSE "TypeError"
\* "Hard reboot into master image failed: %s" % e
HardFailedMsg == PercentFormat(1)
\* "Failed to get command line prompt: " % e
PromptFailedMsg == PercentFormat(0)
\* "Failed to get network up: " % e
NetworkFailedMsg == PercentFormat(0)

Raise(e, c) == pc' = "raised" /\ exc' = e /\ cause' = c /\ stack' = <<>>
NoRaise == UNCHANGED <<exc, cause>>
Return == pc' = Head(stack) /\ stack' = Tail(stack)

TypeOK ==
    /\ config \in Configs
    /\ attempts \in 0..(MaxRetries + 1)
    /\ in_master_image \in BOOLEAN
    /\ master_ip \in {None, "10.0.0.2"}
    /\ softSent \in 0..(MaxRetries + 1)
    /\ hardSent <= softSent
    /\ cacheWrites \in 0..1
    /\ (boot_cmds_dynamic = NoCmds) = (cacheWrites = 0)

\* no tarball transfer, file exchange, command or network wait is going on
ExtIdle ==
    /\ url = <<>>
    /\ num_retry = 0
    /\ console = <<>>
    /\ teBase = 0
    /\ pending = "none"
    /\ op = "none"
    /\ run_in = <<>>
    /\ run_out = <<>>
    /\ clock = 0
    /\ deadline = 0
    /\ probes = 0
    /\ label = None
    /\ xchg = <<>>
    /\ parts = {}
    /\ sub = <<>>
    /\ note = <<>>

Init ==
    /\ ExtIdle
    /\ config \in Configs
    /\ pc = "idle"
    /\ stack = <<>>
    /\ attempts = 0
    /\ in_master_image = FALSE
    /\ master_ip = None
    /\ device_version = None
    /\ boot_cmds_dynamic = NoCmds
    /\ cacheWrites = 0
    /\ lastRead = <<>>
    /\ boot_file = <<>>
    /\ boot_in = <<>>
    /\ boot_cmds = NoCmds
    /\ sent_cmds = NoCmds
    /\ loggedAttempt = 0
    /\ softSent = 0
    /\ hardSent = 0
    /\ softLog = <<>>
    /\ hardLog = <<>>
    /\ probe = "none"
    /\ awaitTimeout = 0
    /\ exc = "none"
    /\ cause = "none"

(***************************************************************************)
(* boot_master_image                                                       *)
(***************************************************************************)
\* a caller invokes boot_master_image: its locals are initialised
EnterBootMasterImage ==
    /\ attempts' = 0
    /\ in_master_image' = FALSE
    /\ pc' = "bmi_loop"

\* the operation boot_master_image is started by the dispatcher
CallBootMasterImage ==
    /\ pc = "idle"
    /\ EnterBootMasterImage
    /\ stack' = <<"returned">>
    /\ NoRaise
    /\ UNCHANGED <<fixed, extVars, imageVars, targetVars, histVars>>

\* while (attempts < boot_attempts) and (not in_master_image): log the attempt
LoopTestHardAfterFailure ==
    /\ pc = "bmi_loop"
    /\ IF attempts < config.boot_retries /\ ~in_master_image
       THEN /\ loggedAttempt' = attempts + 1
            /\ pc' = IF attempts = 0 THEN "bmi_soft_reboot" ELSE "bmi_hard_reboot"
       ELSE /\ pc' = "bmi_after_loop"
            /\ UNCHANGED loggedAttempt
    /\ NoRaise
    /\ UNCHANGED <<fixed, extVars, imageVars, stack, localVars, targetVars, softSent, hardSent,
                   softLog, hardLog, probe, awaitTimeout>>
LoopTest ==
    /\ pc = "bmi_loop"
    /\ IF attempts < config.boot_retries /\ ~in_master_image
       THEN /\ loggedAttempt' = attempts + 1
            /\ pc' = "bmi_soft_reboot"
       ELSE /\ pc' = "bmi_after_loop"
            /\ UNCHANGED loggedAttempt
    /\ NoRaise
    /\ UNCHANGED <<fixed, extVars, imageVars, stack, localVars, targetVars, softSent, hardSent,
                   softLog, hardLog, probe, awaitTimeout>>

\* the soft path failed inside the try: the handler escalates to a hard reset
EscalateCountingAttempt(how) ==
    /\ softLog' = Append(softLog, how)
    /\ attempts' = attempts + 1
    /\ pc' = "bmi_loop"
    /\ NoRaise
    /\ UNCHANGED <<stack, in_master_image>>
Escalate(how) ==
    /\ softLog' = Append(softLog, how)
    /\ pc' = "bmi_hard_reboot"
    /\ NoRaise
    /\ UNCHANGED <<stack, localVars>>

\* an exception no handler of boot_master_image catches leaves it
SoftEscape(e, step) ==
    /\ softLog' = Append(softLog, "eof")
    /\ Raise(e, step)
    /\ UNCHANGED localVars

\* self._soft_reboot() of the attempt
SoftReboot ==
    /\ pc = "bmi_soft_reboot"
    /\ softSent < MaxRetries + 2
    /\ master_ip' = None
    /\ softSent' = softSent + 1
    /\ awaitTimeout' = SoftRebootTimeout
    /\ \E r \in AwaitResults :
         LET e == SoftRebootResult(r)
         IN  IF e = "ok"
             THEN /\ pc' = "bmi_soft_banner"
                  /\ NoRaise
                  /\ UNCHANGED <<stack, localVars, softLog>>
             ELSE IF CaughtByRebootHandler(e)
                  THEN Escalate("reboot_timeout")
                  ELSE SoftEscape(e, "soft_reboot")
    /\ UNCHANGED <<fixed, extVars, imageVars, device_version, boot_cmds_dynamic, loggedAttempt,
                   hardSent, hardLog, probe>>

\* _wait_for_master_boot after the soft reboot: the boot banner
SoftWaitBanner ==
    /\ pc = "bmi_soft_banner"
    /\ awaitTimeout' = MasterBootTimeout
    /\ \E r \in AwaitResults :
         LET e == Expect(r)
         IN  IF e = "ok"
             THEN /\ pc' = "bmi_soft_prompt"
                  /\ NoRaise
                  /\ UNCHANGED <<stack, localVars, softLog>>
             ELSE IF CaughtByRebootHandler(e)
                  THEN Escalate("banner_timeout")
                  ELSE SoftEscape(e, "soft_banner")
    /\ UNCHANGED <<fixed, extVars, imageVars, targetVars, loggedAttempt, softSent, hardSent,
                   hardLog, probe>>

\* _wait_for_master_boot after the soft reboot: the master prompt
SoftWaitPrompt ==
    /\ pc = "bmi_soft_prompt"
    /\ awaitTimeout' = MasterBootTimeout
    /\ \E r \in AwaitResults :
         LET e == Expect(r)
         IN  IF e = "ok"
             THEN /\ pc' = "bmi_set_ps1"
                  /\ softLog' = Append(softLog, "ok")
                  /\ NoRaise
                  /\ UNCHANGED <<stack, localVars>>
             ELSE IF CaughtByRebootHandler(e)
                  THEN Escalate("prompt_timeout")
                  ELSE SoftEscape(e, "soft_prompt")
    /\ UNCHANGED <<fixed, extVars, imageVars, targetVars, loggedAttempt, softSent, hardSent,
                   hardLog, probe>>

\* self._hard_reboot(): the reset command or "~$hardreset"; nothing is awaited
HardReboot ==
    /\ pc = "bmi_hard_reboot"
    /\ master_ip' = None
    /\ hardSent' = hardSent + 1
    /\ pc' = "bmi_hard_banner"
    /\ NoRaise
    /\ UNCHANGED <<fixed, extVars, imageVars, stack, localVars, device_version, boot_cmds_dynamic,
                   loggedAttempt, softSent, softLog, hardLog, probe,
                   awaitTimeout>>

\* the hard path failed too: the attempt is counted and the loop continues
HardFailedNotCounted(how) ==
    /\ hardLog' = Append(hardLog, how)
    /\ pc' = "bmi_loop"
    /\ NoRaise
    /\ UNCHANGED <<stack, localVars>>
HardFailed(how) ==
    /\ hardLog' = Append(hardLog, how)
    /\ IF HardFailedMsg = "ok"
       THEN /\ attempts' = attempts + 1
            /\ pc' = "bmi_loop"
            /\ NoRaise
            /\ UNCHANGED <<stack, in_master_image>>
       ELSE /\ Raise(HardFailedMsg, "hard_reboot")
            /\ UNCHANGED localVars

HardEscape(e, step) ==
    /\ hardLog' = Append(hardLog, "eof")
    /\ Raise(e, step)
    /\ UNCHANGED localVars

\* _wait_for_master_boot after the hard reset: the boot banner
HardWaitBanner ==
    /\ pc = "bmi_hard_banner"
    /\ awaitTimeout' = MasterBootTimeout
    /\ \E r \in AwaitResults :
         LET e == Expect(r)
         IN  IF e = "ok"
             THEN /\ pc' = "bmi_hard_prompt"
                  /\ NoRaise
                  /\ UNCHANGED <<stack, localVars, hardLog>>
             ELSE IF CaughtByRebootHandler(e)
                  THEN HardFailed("timeout")
                  ELSE HardEscape(e, "hard_banner")
    /\ UNCHANGED <<fixed, extVars, imageVars, targetVars, loggedAttempt, softSent, hardSent,
                   softLog, probe>>

\* _wait_for_master_boot after the hard reset: the master prompt
HardWaitPrompt ==
    /\ pc = "bmi_hard_prompt"
    /\ awaitTimeout' = MasterBootTimeout
    /\ \E r \in AwaitResults :
         LET e == Expect(r)
         IN  IF e = "ok"
             THEN /\ pc' = "bmi_set_ps1"
                  /\ hardLog' = Append(hardLog, "ok")
                  /\ NoRaise
                  /\ UNCHANGED <<stack, localVars>>
             ELSE IF CaughtByRebootHandler(e)
                  THEN HardFailed("timeout")
                  ELSE HardEscape(e, "hard_prompt")
    /\ UNCHANGED <<fixed, extVars, imageVars, targetVars, loggedAttempt, softSent, hardSent,
                   softLog, probe>>

\* a handler that logs msg, counts the attempt and continues the loop; the
\* message is built first, and building it may raise
CountAttemptAndContinue(msg, step) ==
    IF msg = "ok"
    THEN /\ attempts' = attempts + 1
         /\ pc' = "bmi_loop"
         /\ NoRaise
         /\ UNCHANGED <<stack, in_master_image>>
    ELSE /\ Raise(msg, step)
         /\ UNCHANGED localVars

\* export PS1 and await MASTER_PS1_PATTERN
SetPS1 ==
    /\ pc = "bmi_set_ps1"
    /\ awaitTimeout' = PS1Timeout
    /\ \E r \in AwaitResults :
         LET e == Expect(r)
         IN  IF e = "ok"
             THEN /\ pc' = "bmi_get_ip"
                  /\ NoRaise
                  /\ UNCHANGED <<stack, localVars>>
             ELSE IF CaughtByPS1Handler(e)
                  THEN CountAttemptAndContinue(PromptFailedMsg, "set_ps1")
                  ELSE /\ Raise(e, "set_ps1")
                       /\ UNCHANGED localVars
    /\ UNCHANGED <<fixed, extVars, imageVars, targetVars, loggedAttempt, softSent, hardSent,
                   softLog, hardLog, probe>>

\* what runner.get_target_ip() ends with: the network never came up, the
\* address was found, or it was not found
TargetIpResults == {"NetworkError", "10.0.0.2", None}

\* self.master_ip = runner.get_target_ip()
GetTargetIp ==
    /\ pc = "bmi_get_ip"
    /\ \E res \in TargetIpResults :
         IF res = "NetworkError"
         THEN /\ IF CaughtByNetworkHandler(res)
                 THEN CountAttemptAndContinue(NetworkFailedMsg, "get_ip")
                 ELSE /\ Raise(res, "get_ip")
                      /\ UNCHANGED localVars
              /\ UNCHANGED master_ip
         ELSE /\ master_ip' = res
              /\ pc' = "bmi_get_version"
              /\ NoRaise
              /\ UNCHANGED <<stack, localVars>>
    /\ UNCHANGED <<fixed, extVars, imageVars, device_version, boot_cmds_dynamic, histVars>>

\* self.device_version = runner.get_device_version(): the version, or None
\* with a warning when the pattern was not matched
GetDeviceVersion ==
    /\ pc = "bmi_get_version"
    /\ \E v \in {"2013-01/2013-02", None} : device_version' = v
    /\ pc' = "bmi_proxy"
    /\ NoRaise
    /\ UNCHANGED <<fixed, extVars, imageVars, stack, localVars, master_ip, boot_cmds_dynamic,
                   histVars>>

\* what runner.run(cmd) ends with when the prompt carries the exit code
RunResults == {"ok", "OperationFailed", "TIMEOUT", "EOF"}

\* the optional proxy export, outside every try block, then success
ExportProxy ==
    /\ pc = "bmi_proxy"
    /\ IF config.lava_proxy
       THEN /\ awaitTimeout' = ProxyTimeout
            /\ \E e \in RunResults :
                 IF e = "ok"
                 THEN /\ in_master_image' = TRUE
                      /\ pc' = "bmi_loop"
                      /\ NoRaise
                      /\ UNCHANGED <<stack, attempts>>
                 ELSE /\ Raise(e, "proxy")
                      /\ UNCHANGED localVars
       ELSE /\ in_master_image' = TRUE
            /\ pc' = "bmi_loop"
            /\ NoRaise
            /\ UNCHANGED <<stack, attempts, awaitTimeout>>
    /\ UNCHANGED <<fixed, extVars, imageVars, targetVars, loggedAttempt, softSent, hardSent,
                   softLog, hardLog, probe>>

\* if not in_master_image: raise CriticalError; else return to the caller.
\* The observations of a call made by another operation end with the call.
AfterLoopSilent ==
    /\ pc = "bmi_after_loop"
    /\ Return
    /\ NoRaise
    /\ UNCHANGED <<fixed, extVars, imageVars, targetVars, localVars, histVars>>
AfterLoop ==
    /\ pc = "bmi_after_loop"
    /\ IF ~in_master_image
       THEN /\ Raise("CriticalError", "exhausted")
            /\ UNCHANGED <<localVars, loggedAttempt, softSent, hardSent,
                           softLog, hardLog>>
       ELSE /\ Return
            /\ NoRaise
            /\ IF Head(stack) = "returned"
               THEN UNCHANGED <<localVars, loggedAttempt, softSent, hardSent,
                                softLog, hardLog>>
               ELSE /\ attempts' = 0
                    /\ in_master_image' = FALSE
                    /\ loggedAttempt' = 0
                    /\ softSent' = 0
                    /\ hardSent' = 0
                    /\ softLog' = <<>>
                    /\ hardLog' = <<>>
    /\ UNCHANGED <<fixed, extVars, imageVars, targetVars, probe, awaitTimeout>>

(***************************************************************************)
(* _as_master                                                              *)
(***************************************************************************)
\* an operation acquires the master role
CallAsMaster ==
    /\ pc = "idle"
    /\ pc' = "am_probe"
    /\ stack' = <<"returned">>
    /\ NoRaise
    /\ UNCHANGED <<fixed, extVars, imageVars, localVars, targetVars, histVars>>

\* sendline(""), expect([MASTER_PS1_PATTERN, pexpect.TIMEOUT], timeout=10);
\* match_id == 1 calls boot_master_image; then the runner is yielded
AsMasterProbeInverted ==
    /\ pc = "am_probe"
    /\ awaitTimeout' = ProbeTimeout
    /\ \E r \in AwaitResults :
         /\ probe' = r
         /\ IF r = "timeout"
            THEN /\ Return
                 /\ NoRaise
                 /\ UNCHANGED localVars
            ELSE IF r = "match"
                 THEN /\ EnterBootMasterImage
                      /\ NoRaise
                      /\ UNCHANGED stack
                 ELSE /\ Raise("EOF", "am_probe")
                      /\ UNCHANGED localVars
    /\ UNCHANGED <<fixed, extVars, imageVars, targetVars, loggedAttempt, softSent, hardSent,
                   softLog, hardLog>>
AsMasterProbe ==
    /\ pc = "am_probe"
    /\ awaitTimeout' = ProbeTimeout
    /\ \E r \in AwaitResults :
         /\ probe' = r
         /\ IF r = "match"
            THEN /\ Return
                 /\ NoRaise
                 /\ UNCHANGED localVars
            ELSE IF r = "timeout"
                 THEN /\ EnterBootMasterImage
                      /\ NoRaise
                      /\ UNCHANGED stack
                 ELSE /\ Raise("EOF", "am_probe")
                      /\ UNCHANGED localVars
    /\ UNCHANGED <<fixed, extVars, imageVars, targetVars, loggedAttempt, softSent, hardSent,
                   softLog, hardLog>>

(***************************************************************************)
(* _read_boot_cmds and the deployments that call it                        *)
(***************************************************************************)
\* the boot files an image or a boot tarball may hold
BootFiles ==
    << <<Word("fatload"), SP, Word("mmc"), SP, PartRef(0, 1), SP,
         Word("uImage"), NL,
         Word("setenv"), SP, Word("bootargs"), SP, UuidArg, SP, Word("ro"), NL,
         Word("bootm"), NL>>,
       <<Word("setenv"), SP, Word("bootargs"), SP, UuidArg, NL,
         Word("boot"), NL>> >>
\* what looking for a boot file ends with: 0 for none, or the file found
FoundFiles == 0..Len(BootFiles)
\* no boot file was found, or the one found does not exist
NoFile == <<>>
FileContent(found) == IF found = 0 THEN NoFile ELSE BootFiles[found]

\* the cache and the number of writes made to it after
\* _read_boot_cmds(image=...) or _read_boot_cmds(boot_tgz=...), where the
\* search for a boot file ended with a file of this content, or with none
ReadBootCmdsNoCacheCheck(cache, writes, content) ==
    IF ~config.read_boot_cmds_from_image THEN <<cache, writes>>
    ELSE IF content # NoFile
         THEN << <<RewriteBootCmds(content, config.boot_device,
                                    config.testboot_offset)>>,
                 writes + 1 >>
         ELSE <<cache, writes>>
ReadBootCmdsIgnoresConfig(cache, writes, content) ==
    IF cache # NoCmds THEN <<cache, writes>>
    ELSE IF content # NoFile
         THEN << <<RewriteBootCmds(content, config.boot_device,
                                    config.testboot_offset)>>,
                 writes + 1 >>
         ELSE <<cache, writes>>
ReadBootCmds(cache, writes, content) ==
    IF ~config.read_boot_cmds_from_image THEN <<cache, writes>>
    ELSE IF cache # NoCmds THEN <<cache, writes>>
    ELSE IF content # NoFile
         THEN << <<RewriteBootCmds(content, config.boot_device,
                                    config.testboot_offset)>>,
                 writes + 1 >>
         ELSE <<cache, writes>>

\* deploy_linaro / deploy_linaro_prebuilt start with boot_master_image
CallDeployLinaro ==
    /\ pc = "idle"
    /\ EnterBootMasterImage
    /\ stack' = <<"dl_generate", "returned">>
    /\ NoRaise
    /\ UNCHANGED <<fixed, extVars, imageVars, targetVars, histVars>>

\* the image is produced, then _generate_tarballs: _customize_linux,
\* _read_boot_cmds(image=image_file) and the extraction of both partitions;
\* a failure of the host-side steps is not caught
GenerateTarballs ==
    /\ pc = "dl_generate"
    /\ \E imageOk \in BOOLEAN, found \in FoundFiles, extractOk \in BOOLEAN :
         IF ~imageOk
         THEN /\ Raise("Exception", "generate_image")
              /\ UNCHANGED <<boot_cmds_dynamic, cacheWrites, lastRead>>
         ELSE /\ LET r == ReadBootCmds(boot_cmds_dynamic, cacheWrites, FileContent(found))
                 IN  /\ boot_cmds_dynamic' = r[1]
                     /\ cacheWrites' = r[2]
              /\ lastRead' = <<"image", found>>
              /\ IF extractOk
                 THEN pc' = "dl_read_tgz" /\ NoRaise /\ UNCHANGED stack
                 ELSE Raise("Exception", "extract_partition")
    /\ UNCHANGED <<fixed, extVars, localVars, master_ip, device_version, histVars,
                   boot_file, boot_in, boot_cmds, sent_cmds>>

\* self._read_boot_cmds(boot_tgz=boot_tgz), then _deploy_tarballs, which
\* acquires the master role
ReadBootTarball ==
    /\ pc = "dl_read_tgz"
    /\ \E found \in FoundFiles :
         /\ LET r == ReadBootCmds(boot_cmds_dynamic, cacheWrites, FileContent(found))
            IN  /\ boot_cmds_dynamic' = r[1]
                /\ cacheWrites' = r[2]
         /\ lastRead' = <<"boot_tgz", found>>
    /\ pc' = "am_probe"
    /\ stack' = <<"dt_format">> \o stack
    /\ NoRaise
    /\ UNCHANGED <<fixed, extVars, localVars, master_ip, device_version, histVars,
                   boot_file, boot_in, boot_cmds, sent_cmds>>

\* events of the trace `console`: the two mkfs commands
FormatRootfs == "run: nice mkfs -t ext4 -q /dev/disk/by-label/testrootfs"
FormatBoot == "run: nice mkfs.vfat /dev/disk/by-label/testboot -n testboot"

\* _format_testpartition, outside the try block of _deploy_tarballs and of
\* deploy_android: umount and mkfs of testrootfs, umount and mkfs of testboot
FormatTestPartitionBootLater ==
    /\ pc = "dt_format"
    /\ \E e \in RunResults :
         IF e # "ok"
         THEN Raise(e, "format") /\ UNCHANGED console
         ELSE /\ console' = Append(console, FormatRootfs)
              /\ pc' = IF op = "deploy_android" THEN "da_boot" ELSE "dt_deploy"
              /\ NoRaise
              /\ UNCHANGED stack
    /\ UNCHANGED <<fixed, extRest, imageVars, localVars, targetVars, histVars>>
FormatTestPartition ==
    /\ pc = "dt_format"
    /\ \E e1 \in RunResults, e2 \in RunResults :
         IF e1 # "ok"
         THEN Raise(e1, "format") /\ UNCHANGED console
         ELSE IF e2 # "ok"
              THEN /\ Raise(e2, "format")
                   /\ console' = Append(console, FormatRootfs)
              ELSE /\ console' = console \o <<FormatRootfs, FormatBoot>>
                   /\ pc' = IF op = "deploy_android"
                            THEN "da_boot" ELSE "dt_deploy"
                   /\ NoRaise
                   /\ UNCHANGED stack
    /\ UNCHANGED <<fixed, extRest, imageVars, localVars, targetVars, histVars>>

\* _deploy_linaro_rootfs and _deploy_linaro_bootfs inside try/except: any
\* exception becomes CriticalError("Deployment failed")
DeployTarballs ==
    /\ pc = "dt_deploy"
    /\ \E e \in RunResults \cup {"RuntimeError"} :
         IF e = "ok"
         THEN Return /\ NoRaise
         ELSE Raise("CriticalError", "deploy")
    /\ UNCHANGED <<fixed, extVars, imageVars, localVars, targetVars, histVars>>

(***************************************************************************)
(* _boot_linaro_image and _boot                                            *)
(***************************************************************************)
\* config.boot_cmds when the job file gives interactive boot commands
JobFileCmds == << <<Word("job-file-cmds")>> >>
\* string_to_list(config.cp.get('__main__', key)): the command lines the
\* device configuration holds under `key`
ConfigCmds(key) == << <<Word(key)>> >>
\* deployment_data['boot_cmds'], the key of the default boot commands
DefaultKey == "boot_cmds"
\* what the job may give: interactive boot commands or not, and the value of
\* the boot option boot_cmds ("absent": the device has no such option)
BootInputs == [job_file : BOOLEAN, opt : {"absent", "boot_cmds", "boot_cmds_oe"}]

\* the if/elif chain of _boot_linaro_image
ResolveBootCmdsImageFirst(in, dynamic) ==
    LET boot_cmds_job_file == in.job_file
        boot_cmds_boot_options == in.opt # "absent" /\ in.opt # "boot_cmds"
    IN  IF boot_cmds_job_file THEN JobFileCmds
        ELSE IF dynamic # NoCmds THEN dynamic[1]
        ELSE IF boot_cmds_boot_options THEN ConfigCmds(in.opt)
        ELSE ConfigCmds(DefaultKey)
ResolveBootCmds(in, dynamic) ==
    LET boot_cmds_job_file == in.job_file
        boot_cmds_boot_options == in.opt # "absent" /\ in.opt # "boot_cmds"
    IN  IF boot_cmds_job_file THEN JobFileCmds
        ELSE IF boot_cmds_boot_options THEN ConfigCmds(in.opt)
        ELSE IF dynamic # NoCmds THEN dynamic[1]
        ELSE ConfigCmds(DefaultKey)

\* power_on: _boot_linaro_image resolves the boot commands and calls _boot
CallBootLinaroImage ==
    /\ pc = "idle"
    /\ \E in \in BootInputs :
         /\ boot_in' = in
         /\ boot_cmds' = ResolveBootCmds(in, boot_cmds_dynamic)
    /\ pc' = "bl_soft_reboot"
    /\ stack' = <<"returned">>
    /\ NoRaise
    /\ UNCHANGED <<fixed, extVars, localVars, targetVars, histVars, cacheWrites,
                   lastRead, boot_file, sent_cmds>>

\* _boot: self._soft_reboot(); whatever it raises is caught by `except:`
BootSoftReboot ==
    /\ pc = "bl_soft_reboot"
    /\ master_ip' = None
    /\ softSent' = softSent + 1
    /\ awaitTimeout' = SoftRebootTimeout
    /\ \E r \in AwaitResults :
         pc' = IF SoftRebootResult(r) = "ok" THEN "bl_enter" ELSE "bl_hard_reboot"
    /\ NoRaise
    /\ UNCHANGED <<fixed, extVars, imageVars, stack, localVars, device_version,
                   boot_cmds_dynamic, loggedAttempt, hardSent, softLog,
                   hardLog, probe>>

\* _boot: self._enter_bootloader(self.proc) inside the try
BootEnterBootloader ==
    /\ pc = "bl_enter"
    /\ \E ok \in BOOLEAN :
         pc' = IF ok THEN "bl_customize" ELSE "bl_hard_reboot"
    /\ NoRaise
    /\ UNCHANGED <<fixed, extVars, imageVars, stack, localVars, targetVars, histVars>>

\* _boot, in the handler: self._hard_reboot(); self._enter_bootloader(...)
BootHardReboot ==
    /\ pc = "bl_hard_reboot"
    /\ master_ip' = None
    /\ hardSent' = hardSent + 1
    /\ \E ok \in BOOLEAN :
         IF ok
         THEN pc' = "bl_customize" /\ NoRaise /\ UNCHANGED stack
         ELSE Raise("Exception", "enter_bootloader")
    /\ UNCHANGED <<fixed, extVars, imageVars, localVars, device_version,
                   boot_cmds_dynamic, loggedAttempt, softSent, softLog,
                   hardLog, probe, awaitTimeout>>

\* _boot: self._customize_bootloader(self.proc, boot_cmds)
CustomizeBootloader ==
    /\ pc = "bl_customize"
    /\ sent_cmds' = <<boot_cmds>>
    /\ \E ok \in BOOLEAN :
         IF ok
         THEN Return /\ NoRaise
         ELSE Raise("Exception", "customize_bootloader")
    /\ UNCHANGED <<fixed, extVars, localVars, targetVars, histVars, cacheWrites,
                   lastRead, boot_file, boot_in, boot_cmds>>

(***************************************************************************)
(* The dispatcher: operations run one after the other on the same Target.  *)
(***************************************************************************)
\* the operation is over (returned or raised): its locals and the
\* observations made of it are dropped; the Target keeps its fields
Finish ==
    /\ pc \in {"returned", "raised"}
    /\ pc' = "idle"
    /\ stack' = <<>>
    /\ attempts' = 0
    /\ in_master_image' = FALSE
    /\ loggedAttempt' = 0
    /\ softSent' = 0
    /\ hardSent' = 0
    /\ softLog' = <<>>
    /\ hardLog' = <<>>
    /\ probe' = "none"
    /\ awaitTimeout' = 0
    /\ exc' = "none"
    /\ cause' = "none"
    /\ lastRead' = <<>>
    /\ boot_in' = <<>>
    /\ boot_cmds' = NoCmds
    /\ sent_cmds' = NoCmds
    /\ console' = <<>>
    /\ UNCHANGED <<fixed, extRest, targetVars, cacheWrites, boot_file>>

Next ==
    \/ CallBootMasterImage
    \/ LoopTest
    \/ SoftReboot
    \/ SoftWaitBanner
    \/ SoftWaitPrompt
    \/ HardReboot
    \/ HardWaitBanner
    \/ HardWaitPrompt
    \/ SetPS1
    \/ GetTargetIp
    \/ GetDeviceVersion
    \/ ExportProxy
    \/ AfterLoop
    \/ CallAsMaster
    \/ AsMasterProbe
    \/ CallDeployLinaro
    \/ GenerateTarballs
    \/ ReadBootTarball
    \/ FormatTestPartition
    \/ DeployTarballs
    \/ CallBootLinaroImage
    \/ BootSoftReboot
    \/ BootEnterBootloader
    \/ BootHardReboot
    \/ CustomizeBootloader
    \/ Finish

Spec == Init /\ [][Next]_vars

(***************************************************************************)
(* Reading the boot commands of an image whose boot file is made of any    *)
(* number of command lines.                                                *)
(***************************************************************************)
\* the command lines a boot file is made of
CommandLines ==
    { <<Word("setenv"), SP, Word("bootargs"), SP, UuidArg, SP, Word("ro")>>,
      <<Word("fatload"), SP, Word("mmc"), SP, PartRef(0, 1), SP,
        Word("uImage")>> }

\* number of newline-terminated lines of a text
LineCount(s) == Cardinality({i \in 1..Len(s) : s[i] = NL})

InitRewrite ==
    /\ ExtIdle
    /\ config \in {c \in Configs : /\ c.boot_retries = 1
                                   /\ ~c.lava_proxy
                                   /\ c.read_boot_cmds_from_image}
    /\ pc = "image_build"
    /\ stack = <<>>
    /\ attempts = 0
    /\ in_master_image = FALSE
    /\ master_ip = None
    /\ device_version = None
    /\ boot_cmds_dynamic = NoCmds
    /\ cacheWrites = 0
    /\ lastRead = <<>>
    /\ boot_file = <<>>
    /\ boot_in = <<>>
    /\ boot_cmds = NoCmds
    /\ sent_cmds = NoCmds
    /\ loggedAttempt = 0
    /\ softSent = 0
    /\ hardSent = 0
    /\ softLog = <<>>
    /\ hardLog = <<>>
    /\ probe = "none"
    /\ awaitTimeout = 0
    /\ exc = "none"
    /\ cause = "none"

\* the image is built with one more command line in its boot file
AppendLine ==
    /\ pc = "image_build"
    /\ LineCount(boot_file) < MaxLines
    /\ \E l \in CommandLines : boot_file' = boot_file \o l \o <<NL>>
    /\ UNCHANGED <<fixed, extVars, pc, stack, localVars, targetVars, histVars, exc,
                   cause, cacheWrites, lastRead, boot_in, boot_cmds, sent_cmds>>

\* _read_boot_cmds(image=image_file) finds the boot file of the image
ReadBootFile ==
    /\ pc = "image_build"
    /\ boot_file # <<>>
    /\ LET r == ReadBootCmds(boot_cmds_dynamic, cacheWrites, boot_file)
       IN  /\ boot_cmds_dynamic' = r[1]
           /\ cacheWrites' = r[2]
    /\ lastRead' = <<"image", 0>>
    /\ pc' = "image_read"
    /\ UNCHANGED <<fixed, extVars, stack, localVars, master_ip, device_version,
                   histVars, exc, cause, boot_file, boot_in, boot_cmds,
                   sent_cmds>>

\* the text of a list of lines: '\n'.join(lines)
RECURSIVE JoinLines(_)
JoinLines(lines) ==
    IF lines = <<>> THEN <<>>
    ELSE IF Len(lines) = 1 THEN lines[1]
    ELSE lines[1] \o <<NL>> \o JoinLines(Tail(lines))

\* the commands that were read are written out as the boot file of a second
\* image, and a Target whose cache is empty reads that image:
\* _rewrite_boot_cmds is applied to the output of _rewrite_boot_cmds
ReadRewrittenFile ==
    /\ pc = "image_read"
    /\ boot_file' = JoinLines(boot_cmds_dynamic[1])
    /\ LET r == ReadBootCmds(NoCmds, 0, boot_file')
       IN  /\ boot_cmds_dynamic' = r[1]
           /\ cacheWrites' = r[2]
    /\ lastRead' = <<"image", 1>>
    /\ pc' = "image_reread"
    /\ UNCHANGED <<fixed, extVars, stack, localVars, master_ip,
                   device_version, histVars, exc, cause, boot_in, boot_cmds,
                   sent_cmds>>

NextRewrite == AppendLine \/ ReadBootFile \/ ReadRewrittenFile

SpecRewrite == InitRewrite /\ [][NextRewrite]_vars

(***************************************************************************)
(* target_extract: the tarball is fetched and unpacked on the device, with *)
(* retries.                                                                *)
(***************************************************************************)
\* default of the parameter num_retry of target_extract
DefaultNumRetry == 5

\* a text as the sequence of its characters; s.endswith(t)
EndsWith(s, t) ==
    /\ Len(s) >= Len(t)
    /\ SubSeq(s, Len(s) - Len(t) + 1, Len(s)) = t

DotGz == <<".", "g", "z">>
DotTgz == <<".", "t", "g", "z">>
DotBz2 == <<".", "b", "z", "2">>
DotXz == <<".", "x", "z">>

\* the transfer URLs given to target_extract (their last path segment)
Urls ==
    { <<"r">> \o DotTgz, <<"b", ".", "t", "a", "r">> \o DotGz,
      <<"s">> \o DotBz2, <<"i">> \o DotXz, <<"i", ".", "t", "a", "r">>,
      <<"g", "z">> }

\* decompression_char of target_extract; "bad" where RuntimeError is raised
DecompressionCharGzipOnly(tar_url) ==
    IF EndsWith(tar_url, DotGz) \/ EndsWith(tar_url, DotTgz) THEN "z"
    ELSE "j"
DecompressionChar(tar_url) ==
    IF EndsWith(tar_url, DotGz) \/ EndsWith(tar_url, DotTgz) THEN "z"
    ELSE IF EndsWith(tar_url, DotBz2) THEN "j"
    ELSE "bad"

\* events of the trace `console`
SendTransfer == "run: wget -O- url | tar -x"
CtrlC == "sendcontrol: c"
EchoRetry == "sendline: echo retry left"
Sleep == "sleep: 60"
WarnFailed == "warning: transfering failed"

\* where an exception goes that leaves a call whose return label is l:
\* the finally or except block the call stands in, or out of the operation
Handler(l) ==
    IF l \in {"et_finally", "fs_outer_finally"} THEN l
    ELSE IF l \in {"dr_divert", "db_umount"} THEN "dt_except"
    ELSE "raised"

\* exception e leaves the current call
Throw(e, c) ==
    LET h == Handler(Head(stack))
    IN  /\ pc' = h
        /\ stack' = Tail(stack)
        /\ IF h = "raised"
           THEN exc' = e /\ cause' = c /\ pending' = "none"
           ELSE pending' = e /\ UNCHANGED <<exc, cause>>

\* state of the boot machinery, of the command runner and of the network
\* wait, which a transfer leaves alone
bootState == <<localVars, targetVars, imageVars, histVars>>
notXfer == <<fixed, bootState, run_in, run_out, clock, deadline, probes,
             label, parts>>

\* a caller invokes target_extract(runner, tar_url, dest)
EnterTargetExtract(tar_url) ==
    /\ url' = tar_url
    /\ num_retry' = DefaultNumRetry
    /\ teBase' = Len(console)
    /\ pc' = "te_check"

\* target_extract is called on its own
CallTargetExtract ==
    /\ pc = "idle"
    /\ \E u \in Urls : EnterTargetExtract(u)
    /\ op' = "target_extract"
    /\ stack' = <<"returned">>
    /\ UNCHANGED <<notXfer, xchg, exc, cause, console, pending>>

\* the extension of the URL selects the decompression, or RuntimeError
CheckExtension ==
    /\ pc = "te_check"
    /\ IF DecompressionChar(url) = "bad"
       THEN Throw("RuntimeError", "bad_extension")
       ELSE pc' = "te_loop" /\ UNCHANGED <<stack, exc, cause, pending>>
    /\ UNCHANGED <<notXfer, xchg, url, num_retry, console, teBase, op>>

\* while num_retry > 0: ...; raise RuntimeError('extracting ... failed')
TransferLoopOneMore ==
    /\ pc = "te_loop"
    /\ IF num_retry >= 0
       THEN pc' = "te_run" /\ UNCHANGED <<stack, exc, cause, pending>>
       ELSE Throw("RuntimeError", "transfer_exhausted")
    /\ UNCHANGED <<notXfer, xchg, url, num_retry, console, teBase, op>>
TransferLoop ==
    /\ pc = "te_loop"
    /\ IF num_retry > 0
       THEN pc' = "te_run" /\ UNCHANGED <<stack, exc, cause, pending>>
       ELSE Throw("RuntimeError", "transfer_exhausted")
    /\ UNCHANGED <<notXfer, xchg, url, num_retry, console, teBase, op>>

\* A file tree is a set of entries [path, data]: path is the sequence of the
\* names from the root, data is 0 for a directory and the content of a file
\* otherwise.  An archive is a set of members of the same shape whose paths
\* are the member names.
IsPrefix(p, q) == Len(p) <= Len(q) /\ SubSeq(q, 1, Len(p)) = p
Under(fs, dir) == {e \in fs : IsPrefix(dir, e.path)}

\* tar -czf <archive> -C cdir name: the members are named relative to cdir
\* and begin with name as it was given
TarCreate(fs, cdir, name) ==
    LET top == IF name = <<".">> THEN cdir ELSE cdir \o name
    IN  { [path |-> (IF name = <<".">> THEN <<".">> ELSE <<>>) \o
                    SubSeq(e.path, Len(cdir) + 1, Len(e.path)),
           data |-> e.data] : e \in Under(fs, top) }

\* mk_targz(tfname, rootdir): the archive of rootdir, members named from "."
MkTargz(fs, rootdir) == TarCreate(fs, rootdir, <<".">>)

\* the path a member name stands for: "." components are dropped
MemberPath(p) == SelectSeq(p, LAMBDA c : c # ".")

\* tar -C dest -xzf <archive>: every member is written below dest, replacing
\* what has the same path
TarExtract(fs, archive, dest) ==
    LET new == { [path |-> dest \o MemberPath(m.path), data |-> m.data] :
                 m \in archive }
    IN  {e \in fs : \A n \in new : n.path # e.path} \cup new

\* rm -rf dir, rmtree(dir)
RemoveTree(fs, dir) == fs \ Under(fs, dir)
\* mkdir dir
MakeDir(fs, dir) == fs \cup {[path |-> dir, data |-> 0]}
\* a file is written
WriteFile(fs, path, data) ==
    {e \in fs : e.path # path} \cup {[path |-> path, data |-> data]}
\* what a directory holds: the entries below it, named relative to it
Content(fs, dir) ==
    { [path |-> SubSeq(e.path, Len(dir) + 1, Len(e.path)), data |-> e.data] :
      e \in {x \in Under(fs, dir) : x.path # dir} }

\* what the command leaves on the device when file_system uploads with it:
\* the archive unpacked below dest when it succeeded, and either that or
\* nothing when it failed
Unpacked(ok) ==
    IF op = "file_system"
    THEN \E done \in {TRUE, ok} :
           xchg' = IF done
                   THEN [xchg EXCEPT !.dev = TarExtract(xchg.dev, xchg.tf,
                                                        xchg.dest)]
                   ELSE xchg
    ELSE UNCHANGED xchg

\* runner.run('wget ... | tar ...'): return on success; OperationFailed and
\* pexpect.TIMEOUT are caught and logged; anything else leaves
RunTransfer ==
    /\ pc = "te_run"
    /\ \E e \in RunResults :
         /\ IF e = "ok"
            THEN /\ console' = Append(console, SendTransfer)
                 /\ Return
                 /\ UNCHANGED <<exc, cause, pending>>
            ELSE IF e \in {"OperationFailed", "TIMEOUT"}
                 THEN /\ console' = console \o <<SendTransfer, WarnFailed>>
                      /\ pc' = "te_backoff"
                      /\ UNCHANGED <<stack, exc, cause, pending>>
                 ELSE /\ console' = Append(console, SendTransfer)
                      /\ Throw(e, "transfer")
         /\ Unpacked(e = "ok")
    /\ UNCHANGED <<notXfer, url, num_retry, teBase, op>>

\* if num_retry > 1: Ctrl-C, echo, sleep; num_retry -= 1
BackoffNoInterrupt ==
    /\ pc = "te_backoff"
    /\ console' = IF num_retry > 1
                  THEN console \o <<EchoRetry, Sleep>>
                  ELSE console
    /\ num_retry' = num_retry - 1
    /\ pc' = "te_loop"
    /\ UNCHANGED <<notXfer, xchg, stack, exc, cause, url, teBase, pending, op>>
Backoff ==
    /\ pc = "te_backoff"
    /\ console' = IF num_retry > 1
                  THEN console \o <<CtrlC, EchoRetry, Sleep>>
                  ELSE console
    /\ num_retry' = num_retry - 1
    /\ pc' = "te_loop"
    /\ UNCHANGED <<notXfer, xchg, stack, exc, cause, url, teBase, pending, op>>

(***************************************************************************)
(* extract_tarball                                                         *)
(***************************************************************************)
MountMnt == "run: mount partition /mnt"
UmountMnt == "run: umount /mnt"
MountRoot == "run: mount /dev/disk/by-label/testrootfs /mnt/root"
UmountRoot == "run: umount /mnt/root"
MountBoot == "run: mount /dev/disk/by-label/testboot /mnt/boot"
UmountBoot == "run: umount /mnt/boot"
StartServer == "sendline: python -m SimpleHTTPServer 0"
MakeArchive == "run: nice tar -czf /tmp/fs.tgz"
RemoveTarget == "run: rm -rf targetdir"

\* a runner.run that fails: OperationFailed, pexpect.TIMEOUT or pexpect.EOF
RunFailures == RunResults \ {"ok"}

\* get_partition: the device path of a known partition, RuntimeError for
\* any other; then runner.run('mount %s /mnt' % partition)
MountResults == {"ok", "unknown_partition"} \cup RunFailures

\* extract_tarball(tarball_url, partition, directory) acquires the master role
CallExtractTarball ==
    /\ pc = "idle"
    /\ \E u \in Urls : url' = u
    /\ op' = "extract_tarball"
    /\ pc' = "am_probe"
    /\ stack' = <<"et_mount", "returned">>
    /\ UNCHANGED <<notXfer, xchg, exc, cause, num_retry, console, teBase, pending>>

\* partition = self.get_partition(...); runner.run('mount %s /mnt')
ExtractMount ==
    /\ pc = "et_mount"
    /\ \E r \in MountResults :
         IF r = "ok"
         THEN /\ console' = Append(console, MountMnt)
              /\ pc' = "et_extract"
              /\ UNCHANGED <<stack, exc, cause, pending>>
         ELSE /\ Throw(IF r = "unknown_partition" THEN "RuntimeError" ELSE r,
                       "mount")
              /\ UNCHANGED console
    /\ UNCHANGED <<notXfer, xchg, url, num_retry, teBase, op>>

\* try: self.target_extract(runner, tarball_url, '/mnt/%s' % directory)
ExtractCall ==
    /\ pc = "et_extract"
    /\ EnterTargetExtract(url)
    /\ stack' = <<"et_finally">> \o stack
    /\ UNCHANGED <<notXfer, xchg, exc, cause, console, pending, op>>

\* finally: runner.run('umount /mnt'); the exception in flight, if any, goes
\* on, unless the umount raises one of its own
ExtractFinally ==
    /\ pc = "et_finally"
    /\ console' = Append(console, UmountMnt)
    /\ \E r \in RunResults :
         IF r = "ok"
         THEN IF pending = "none"
              THEN Return /\ UNCHANGED <<exc, cause, pending>>
              ELSE Throw(pending, "transfer")
         ELSE Throw(r, "umount")
    /\ UNCHANGED <<notXfer, xchg, url, num_retry, teBase, op>>

(***************************************************************************)
(* file_system: a directory of the device is handed to a host-side step    *)
(* and written back.                                                       *)
(***************************************************************************)
\* the tarball file_system uploads again: scratch_dir/fs.tgz
FsTgzUrl == <<"f", "s">> \o DotTgz

\* os.path.join('/mnt/%s' % directory); os.path.split(targetdir)
TargetDir(directory) == <<"mnt">> \o directory
ParentDir(directory) == SubSeq(TargetDir(directory), 1, Len(directory))
TargetName(directory) == <<directory[Len(directory)]>>
\* tfdir = os.path.join(self.scratch_dir, str(time.time()))
TfDir == <<"scratch", "time">>

\* the values of the argument `directory`, and the trees the partition may
\* hold when file_system is called: the directory may be missing, empty or
\* hold files; a file next to it is there in every case
Directories == { <<"lava">>, <<"lava", "bin">> }
DeviceTrees(directory) ==
    LET t == TargetDir(directory)
        base == { [path |-> SubSeq(t, 1, i), data |-> 0] :
                  i \in 1..(Len(t) - 1) }
                \cup {[path |-> ParentDir(directory) \o <<"keep">>, data |-> 3]}
        dir == [path |-> t, data |-> 0]
        f == [path |-> t \o <<"f">>, data |-> 1]
        g == [path |-> t \o <<"sub">>, data |-> 0]
        h == [path |-> t \o <<"sub", "g">>, data |-> 2]
    IN  { base, base \cup {dir}, base \cup {dir, f}, base \cup {dir, g, h},
          base \cup {dir, f, g, h} }

\* assert directory != '/'; then the master role is acquired
CallFileSystem ==
    /\ pc = "idle"
    /\ op' = "file_system"
    /\ \E directoryIsRoot \in BOOLEAN :
         IF directoryIsRoot
         THEN /\ pc' = "raised"
              /\ exc' = "AssertionError"
              /\ cause' = "directory"
              /\ stack' = <<>>
              /\ UNCHANGED xchg
         ELSE /\ pc' = "am_probe"
              /\ stack' = <<"fs_mount", "returned">>
              /\ \E d \in Directories : \E tree \in DeviceTrees(d) :
                   xchg' = [directory |-> d,
                            before |-> Content(tree, TargetDir(d)),
                            dev |-> tree,
                            tgz |-> {},
                            port |-> 0,
                            fetched |-> FALSE,
                            tf |-> {},
                            host |-> {},
                            entered |-> FALSE,
                            modified |-> FALSE,
                            dest |-> <<>>]
              /\ UNCHANGED <<exc, cause>>
    /\ UNCHANGED <<notXfer, url, num_retry, console, teBase, pending>>

\* partition = self.get_partition(...); runner.run('mount %s /mnt')
FsMount ==
    /\ pc = "fs_mount"
    /\ \E r \in MountResults :
         IF r = "ok"
         THEN /\ console' = Append(console, MountMnt)
              /\ pc' = "fs_prepare"
              /\ UNCHANGED <<stack, exc, cause, pending>>
         ELSE /\ Throw(IF r = "unknown_partition" THEN "RuntimeError" ELSE r,
                       "mount")
              /\ UNCHANGED console
    /\ UNCHANGED <<notXfer, xchg, url, num_retry, teBase, op>>

\* an exception raised inside the outer try block: on to its finally
ToOuterFinally(e) ==
    /\ pending' = e
    /\ pc' = "fs_outer_finally"

\* is_file_exist / mkdir, tar -czf /tmp/fs.tgz, cd /tmp
FsPrepare ==
    /\ pc = "fs_prepare"
    /\ \E r \in RunResults :
         IF r = "ok"
         THEN /\ console' = Append(console, MakeArchive)
              /\ pc' = "fs_server"
              /\ LET t == TargetDir(xchg.directory)
                     exists == \E e \in xchg.dev : e.path = t
                     made == IF exists THEN xchg.dev
                             ELSE MakeDir(xchg.dev, t)
                 IN  xchg' = [xchg EXCEPT
                                !.dev = made,
                                !.tgz = TarCreate(made,
                                                  ParentDir(xchg.directory),
                                                  TargetName(xchg.directory))]
              /\ UNCHANGED pending
         ELSE /\ ToOuterFinally(r)
              /\ UNCHANGED <<console, xchg>>
    /\ UNCHANGED <<notXfer, stack, exc, cause, url, num_retry, teBase, op>>

\* sendline('python -m SimpleHTTPServer ...'); expect([banner, EOF, TIMEOUT]);
\* match_id != 0 raises CriticalError
FsStartServerUnchecked ==
    /\ pc = "fs_server"
    /\ console' = Append(console, StartServer)
    /\ \E r \in AwaitResults :
         /\ xchg' = [xchg EXCEPT !.port = IF r = "match" THEN 8000 ELSE 0]
         /\ pc' = "fs_download"
         /\ UNCHANGED pending
    /\ UNCHANGED <<notXfer, stack, exc, cause, url, num_retry, teBase, op>>
FsStartServer ==
    /\ pc = "fs_server"
    /\ console' = Append(console, StartServer)
    /\ \E r \in AwaitResults :
         IF r = "match"
         THEN /\ pc' = "fs_download"
              /\ xchg' = [xchg EXCEPT !.port = 8000]
              /\ UNCHANGED pending
         ELSE /\ ToOuterFinally("CriticalError")
              /\ UNCHANGED xchg
    /\ UNCHANGED <<notXfer, stack, exc, cause, url, num_retry, teBase, op>>

\* tf = download_with_retry(...), before the inner try block
FsDownloadUnprotected ==
    /\ pc = "fs_download"
    /\ \E ok \in BOOLEAN :
         /\ xchg' = [xchg EXCEPT !.fetched = TRUE,
                                 !.tf = IF ok THEN xchg.tgz ELSE {}]
         /\ IF ok
            THEN pc' = "fs_unpack" /\ UNCHANGED <<stack, exc, cause>>
            ELSE Raise("DownloadError", "download")
    /\ UNCHANGED <<notXfer, pending, console, url, num_retry, teBase, op>>
FsDownload ==
    /\ pc = "fs_download"
    /\ \E ok \in BOOLEAN :
         /\ xchg' = [xchg EXCEPT !.fetched = TRUE,
                                 !.tf = IF ok THEN xchg.tgz ELSE {}]
         /\ IF ok
            THEN pc' = "fs_unpack" /\ UNCHANGED pending
            ELSE ToOuterFinally("DownloadError")
    /\ UNCHANGED <<notXfer, stack, exc, cause, console, url, num_retry,
                   teBase, op>>

\* inner try: os.mkdir(tfdir), tar -xzf on the host
FsUnpack ==
    /\ pc = "fs_unpack"
    /\ \E ok \in BOOLEAN :
         /\ pending' = IF ok THEN "none" ELSE "HostError"
         /\ pc' = IF ok THEN "fs_yield" ELSE "fs_inner_finally"
         /\ xchg' = [xchg EXCEPT
                        !.host = IF ok
                                 THEN TarExtract(MakeDir({}, TfDir), xchg.tf,
                                                 TfDir)
                                 ELSE {}]
    /\ UNCHANGED <<notXfer, stack, exc, cause, console, url, num_retry,
                   teBase, op>>

\* yield: the caller's host-side step runs, and may raise
FsYieldLeavesOnError ==
    /\ pc = "fs_yield"
    /\ \E ok \in BOOLEAN :
         /\ pending' = IF ok THEN "none" ELSE "CallerError"
         /\ pc' = IF ok THEN "fs_inner_finally" ELSE "fs_outer_finally"
    /\ \E modify \in BOOLEAN :
         xchg' = [xchg EXCEPT
                    !.entered = TRUE,
                    !.modified = modify,
                    !.host = IF modify
                             THEN WriteFile(xchg.host,
                                            TfDir \o TargetName(xchg.directory)
                                                  \o <<"f">>, 4)
                             ELSE xchg.host]
    /\ UNCHANGED <<notXfer, stack, exc, cause, console, url, num_retry,
                   teBase, op>>
FsYield ==
    /\ pc = "fs_yield"
    /\ \E ok \in BOOLEAN :
         pending' = IF ok THEN "none" ELSE "CallerError"
    /\ \E modify \in BOOLEAN :
         xchg' = [xchg EXCEPT
                    !.entered = TRUE,
                    !.modified = modify,
                    !.host = IF modify
                             THEN WriteFile(xchg.host,
                                            TfDir \o TargetName(xchg.directory)
                                                  \o <<"f">>, 4)
                             ELSE xchg.host]
    /\ pc' = "fs_inner_finally"
    /\ UNCHANGED <<notXfer, stack, exc, cause, console, url, num_retry,
                   teBase, op>>

\* inner finally: mk_targz and rmtree on the host, Ctrl-C to the server,
\* rm -rf of the directory, then the upload by target_extract
FsInnerFinallyIntoTarget ==
    /\ pc = "fs_inner_finally"
    /\ \E hostOk \in BOOLEAN, r \in RunResults :
         IF ~hostOk
         THEN /\ ToOuterFinally("HostError")
              /\ UNCHANGED <<console, stack, url, num_retry, teBase, xchg>>
         ELSE IF r # "ok"
              THEN /\ console' = console \o <<CtrlC, RemoveTarget>>
                   /\ xchg' = [xchg EXCEPT
                                  !.tf = MkTargz(xchg.host, TfDir),
                                  !.host = RemoveTree(xchg.host, TfDir)]
                   /\ ToOuterFinally(r)
                   /\ UNCHANGED <<stack, url, num_retry, teBase>>
              ELSE /\ console' = console \o <<CtrlC, RemoveTarget>>
                   /\ xchg' = [xchg EXCEPT
                                  !.tf = MkTargz(xchg.host, TfDir),
                                  !.host = RemoveTree(xchg.host, TfDir),
                                  !.dev = RemoveTree(xchg.dev,
                                             TargetDir(xchg.directory)),
                                  !.dest = TargetDir(xchg.directory)]
                   /\ url' = FsTgzUrl
                   /\ num_retry' = DefaultNumRetry
                   /\ teBase' = Len(console')
                   /\ pc' = "te_check"
                   /\ stack' = <<"fs_outer_finally">> \o stack
                   /\ UNCHANGED pending
    /\ UNCHANGED <<notXfer, exc, cause, op>>
FsInnerFinally ==
    /\ pc = "fs_inner_finally"
    /\ \E hostOk \in BOOLEAN, r \in RunResults :
         IF ~hostOk
         THEN /\ ToOuterFinally("HostError")
              /\ UNCHANGED <<console, stack, url, num_retry, teBase, xchg>>
         ELSE IF r # "ok"
              THEN /\ console' = console \o <<CtrlC, RemoveTarget>>
                   /\ xchg' = [xchg EXCEPT
                                  !.tf = MkTargz(xchg.host, TfDir),
                                  !.host = RemoveTree(xchg.host, TfDir)]
                   /\ ToOuterFinally(r)
                   /\ UNCHANGED <<stack, url, num_retry, teBase>>
              ELSE /\ console' = console \o <<CtrlC, RemoveTarget>>
                   /\ xchg' = [xchg EXCEPT
                                  !.tf = MkTargz(xchg.host, TfDir),
                                  !.host = RemoveTree(xchg.host, TfDir),
                                  !.dev = RemoveTree(xchg.dev,
                                             TargetDir(xchg.directory)),
                                  !.dest = ParentDir(xchg.directory)]
                   /\ url' = FsTgzUrl
                   /\ num_retry' = DefaultNumRetry
                   /\ teBase' = Len(console')
                   /\ pc' = "te_check"
                   /\ stack' = <<"fs_outer_finally">> \o stack
                   /\ UNCHANGED pending
    /\ UNCHANGED <<notXfer, exc, cause, op>>

\* outer finally: Ctrl-C to the server and runner.run('umount /mnt'); the
\* exception in flight, if any, goes on
FsOuterFinally ==
    /\ pc = "fs_outer_finally"
    /\ console' = console \o <<CtrlC, UmountMnt>>
    /\ \E r \in RunResults :
         IF r = "ok"
         THEN IF pending = "none"
              THEN Return /\ UNCHANGED <<exc, cause, pending>>
              ELSE Throw(pending, "file_system")
         ELSE Throw(r, "umount")
    /\ UNCHANGED <<notXfer, xchg, url, num_retry, teBase, op>>

(***************************************************************************)
(* _deploy_tarballs with its helpers _deploy_linaro_rootfs and             *)
(* _deploy_linaro_bootfs, command by command.                              *)
(***************************************************************************)
\* boot.tgz and root.tgz of _generate_tarballs, below lava_image_url
RootUrl == <<"r", "o", "o", "t">> \o DotTgz
BootUrl == <<"b", "o", "o", "t">> \o DotTgz

\* _deploy_tarballs(boot_tgz, root_tgz) acquires the master role
CallDeployTarballs ==
    /\ pc = "idle"
    /\ op' = "_deploy_tarballs"
    /\ pc' = "am_probe"
    /\ stack' = <<"dt_format", "returned">>
    /\ UNCHANGED <<notXfer, xchg, exc, cause, url, num_retry, console, teBase,
                   pending>>

\* an exception raised inside the try block of _deploy_tarballs
ToDeployExcept(e) ==
    /\ pending' = e
    /\ pc' = "dt_except"

\* _deploy_linaro_rootfs: udevadm trigger, mkdir -p /mnt/root, mount
DeployRootfsMount ==
    /\ pc = "dt_deploy"
    /\ \E r \in RunResults :
         IF r = "ok"
         THEN /\ console' = Append(console, MountRoot)
              /\ pc' = "dr_extract"
              /\ UNCHANGED pending
         ELSE /\ ToDeployExcept(r)
              /\ UNCHANGED console
    /\ UNCHANGED <<notXfer, xchg, stack, exc, cause, url, num_retry, teBase, op>>

\* session._client.target_extract(session, rootfs, '/mnt/root', timeout=18000)
DeployRootfsExtract ==
    /\ pc = "dr_extract"
    /\ EnterTargetExtract(RootUrl)
    /\ stack' = <<"dr_divert">> \o stack
    /\ UNCHANGED <<notXfer, xchg, exc, cause, console, pending, op>>

\* the dpkg-divert commands, then session.run('umount /mnt/root')
DeployRootfsDivert ==
    /\ pc = "dr_divert"
    /\ \E d \in RunResults, r \in RunResults :
         IF d # "ok"
         THEN /\ ToDeployExcept(d)
              /\ UNCHANGED console
         ELSE /\ console' = Append(console, UmountRoot)
              /\ IF r = "ok"
                 THEN pc' = "db_mount" /\ UNCHANGED pending
                 ELSE ToDeployExcept(r)
    /\ UNCHANGED <<notXfer, xchg, stack, exc, cause, url, num_retry, teBase, op>>

\* _deploy_linaro_bootfs: udevadm trigger, mkdir -p /mnt/boot, mount
DeployBootfsMount ==
    /\ pc = "db_mount"
    /\ \E r \in RunResults :
         IF r = "ok"
         THEN /\ console' = Append(console, MountBoot)
              /\ pc' = "db_extract"
              /\ UNCHANGED pending
         ELSE /\ ToDeployExcept(r)
              /\ UNCHANGED console
    /\ UNCHANGED <<notXfer, xchg, stack, exc, cause, url, num_retry, teBase, op>>

\* session._client.target_extract(session, bootfs, '/mnt/boot')
DeployBootfsExtract ==
    /\ pc = "db_extract"
    /\ EnterTargetExtract(BootUrl)
    /\ stack' = <<"db_umount">> \o stack
    /\ UNCHANGED <<notXfer, xchg, exc, cause, console, pending, op>>

\* session.run('umount /mnt/boot'), the end of the try block
DeployBootfsUmount ==
    /\ pc = "db_umount"
    /\ console' = Append(console, UmountBoot)
    /\ \E r \in RunResults :
         IF r = "ok"
         THEN Return /\ UNCHANGED <<exc, cause, pending>>
         ELSE ToDeployExcept(r) /\ UNCHANGED <<stack, exc, cause>>
    /\ UNCHANGED <<notXfer, xchg, url, num_retry, teBase, op>>

\* except: logging.exception(...); raise CriticalError("Deployment failed")
DeployExcept ==
    /\ pc = "dt_except"
    /\ Throw("CriticalError", "deploy")
    /\ UNCHANGED <<notXfer, xchg, url, num_retry, console, teBase, op>>

(***************************************************************************)
(* deploy_android with its helpers, command by command.                    *)
(***************************************************************************)
\* the three tarballs of an Android build, below lava_image_url
AndroidBootUrl == <<"b">> \o DotBz2
AndroidSystemUrl == <<"s">> \o DotBz2
AndroidDataUrl == <<"d">> \o DotBz2

\* events of the trace `console`
FormatData(l) ==
    IF l = "userdata" THEN "run: nice mkfs.ext4 -q /dev/disk/by-label/userdata"
    ELSE "run: nice mkfs.ext4 -q /dev/disk/by-label/sdcard"
PurgeSdcard == "run: nice mkfs.vfat /dev/disk/by-label/sdcard -n sdcard"

\* what an existence probe ends with on this device: ls finds the link of a
\* label the device has; a timeout or a closed stream raises
ProbeFailures == {"TIMEOUT", "EOF"}
HasPartition(l) == l # "" /\ l \in parts

\* what the rest of the deployment leaves alone
notAndroid == <<fixed, bootState, run_in, run_out, clock, deadline, probes,
                xchg>>

\* deploy_android(boot, system, userdata) starts with boot_master_image;
\* the device has a userdata partition, an sdcard partition, both or none
CallDeployAndroid ==
    /\ pc = "idle"
    /\ op' = "deploy_android"
    /\ \E ps \in SUBSET {"userdata", "sdcard"} : parts' = ps
    /\ EnterBootMasterImage
    /\ stack' = <<"da_download", "returned">>
    /\ NoRaise
    /\ UNCHANGED <<fixed, imageVars, targetVars, histVars, url, num_retry,
                   console, teBase, pending, run_in, run_out, clock, deadline,
                   probes, label, xchg>>

\* the three download_image calls on the host, then the master role
AndroidDownload ==
    /\ pc = "da_download"
    /\ \E ok \in BOOLEAN :
         IF ok
         THEN /\ pc' = "am_probe"
              /\ stack' = <<"dt_format">> \o stack
              /\ NoRaise
         ELSE Raise("DownloadError", "download_image")
    /\ UNCHANGED <<notAndroid, url, num_retry, console, teBase, pending, op,
                   label, parts>>

\* _deploy_linaro_android_boot: mkdir, mount testboot, target_extract
AndroidDeployBoot ==
    /\ pc = "da_boot"
    /\ \E r \in RunResults :
         IF r = "ok"
         THEN /\ EnterTargetExtract(AndroidBootUrl)
              /\ stack' = <<"da_boot_done">> \o stack
              /\ NoRaise
         ELSE /\ Raise(r, "mount")
              /\ UNCHANGED <<url, num_retry, teBase>>
    /\ UNCHANGED <<notAndroid, console, pending, op, label, parts>>

\* _recreate_uInitrd, then session.run('umount /mnt/lava/boot')
AndroidBootDone ==
    /\ pc = "da_boot_done"
    /\ \E u \in RunResults \cup ProbeFailures, r \in RunResults :
         IF u # "ok"
         THEN Raise(u, "recreate_uInitrd")
         ELSE IF r = "ok"
              THEN pc' = "da_system" /\ NoRaise /\ UNCHANGED stack
              ELSE Raise(r, "umount")
    /\ UNCHANGED <<notAndroid, console, url, num_retry, teBase, pending, op, label,
                   parts>>

\* _deploy_linaro_android_system: mkdir, mount testrootfs, target_extract
AndroidDeploySystem ==
    /\ pc = "da_system"
    /\ \E r \in RunResults :
         IF r = "ok"
         THEN /\ EnterTargetExtract(AndroidSystemUrl)
              /\ stack' = <<"da_system_done">> \o stack
              /\ NoRaise
         ELSE /\ Raise(r, "mount")
              /\ UNCHANGED <<url, num_retry, teBase>>
    /\ UNCHANGED <<notAndroid, console, pending, op, label, parts>>

\* the vold.fstab and disablesuspend.sh steps with their probes, the PS1 of
\* mkshrc, then session.run('umount /mnt/lava/system')
AndroidSystemDone ==
    /\ pc = "da_system_done"
    /\ \E u \in RunResults \cup ProbeFailures, r \in RunResults :
         IF u # "ok"
         THEN Raise(u, "customize_system")
         ELSE IF r = "ok"
              THEN pc' = "da_data" /\ NoRaise /\ UNCHANGED stack
              ELSE Raise(r, "umount")
    /\ UNCHANGED <<notAndroid, console, url, num_retry, teBase, pending, op, label,
                   parts>>

\* _android_data_label: 'userdata' when a partition has that label, else
\* 'sdcard'
AndroidDataLabelSdcardFirst ==
    IF HasPartition("sdcard") THEN "sdcard" ELSE "userdata"
AndroidDataLabel ==
    IF HasPartition("userdata") THEN "userdata" ELSE "sdcard"

\* _deploy_linaro_android_data: the label is chosen, the partition is
\* unmounted (failok), formatted and mounted, then target_extract
AndroidDeployData ==
    /\ pc = "da_data"
    /\ \E p \in {"ok"} \cup ProbeFailures, r \in RunResults :
         IF p # "ok"
         THEN /\ Raise(p, "has_partition_with_label")
              /\ UNCHANGED <<console, url, num_retry, teBase, label>>
         ELSE /\ label' = AndroidDataLabel
              /\ IF r # "ok" \/ ~HasPartition(label')
                 THEN /\ Raise(IF r # "ok" THEN r ELSE "OperationFailed",
                               "format_data")
                      /\ UNCHANGED <<console, url, num_retry, teBase>>
                 ELSE /\ console' = Append(console, FormatData(label'))
                      /\ EnterTargetExtract(AndroidDataUrl)
                      /\ stack' = <<"da_data_done">> \o stack
                      /\ NoRaise
    /\ UNCHANGED <<notAndroid, pending, op, parts>>

\* session.run('umount /mnt/lava/data')
AndroidDataDone ==
    /\ pc = "da_data_done"
    /\ \E r \in RunResults :
         IF r = "ok"
         THEN pc' = "da_purge" /\ NoRaise /\ UNCHANGED stack
         ELSE Raise(r, "umount")
    /\ UNCHANGED <<notAndroid, url, num_retry, console, teBase, pending, op,
                   label, parts>>

\* if master.has_partition_with_label('userdata') and
\* master.has_partition_with_label('sdcard'): _purge_linaro_android_sdcard
AndroidPurge ==
    /\ pc = "da_purge"
    /\ \E p \in {"ok"} \cup ProbeFailures, r \in RunResults :
         IF p # "ok"
         THEN Raise(p, "has_partition_with_label") /\ UNCHANGED console
         ELSE IF HasPartition("userdata") /\ HasPartition("sdcard")
              THEN /\ console' = Append(console, PurgeSdcard)
                   /\ IF r = "ok"
                      THEN Return /\ NoRaise
                      ELSE Raise(r, "purge")
              ELSE /\ Return
                   /\ NoRaise
                   /\ UNCHANGED console
    /\ UNCHANGED <<notAndroid, url, num_retry, teBase, pending, op, label,
                   parts>>

(***************************************************************************)
(* The transfer operations, each started once on a Target that may or may  *)
(* not be in its master image.                                             *)
(***************************************************************************)
InitTransfer ==
    /\ Init
    /\ config.boot_retries = 1
    /\ config.testboot_offset = 0
    /\ ~config.read_boot_cmds_from_image

\* boot_master_image as _as_master calls it
BootMachine ==
    \/ LoopTest
    \/ SoftReboot
    \/ SoftWaitBanner
    \/ SoftWaitPrompt
    \/ HardReboot
    \/ HardWaitBanner
    \/ HardWaitPrompt
    \/ SetPS1
    \/ GetTargetIp
    \/ GetDeviceVersion
    \/ ExportProxy
    \/ AfterLoop

\* boot_master_image called once, for every retry count of the
\* configuration; every step is a computation or an await with a timeout,
\* so a step that can be taken is taken
NextMasterBoot ==
    \/ CallBootMasterImage
    \/ BootMachine

SpecMasterBoot ==
    Init /\ [][NextMasterBoot]_vars /\ WF_vars(NextMasterBoot)

\* the deployments, each started once: deploy_linaro and
\* deploy_linaro_prebuilt with _deploy_tarballs, and deploy_android
NextDeploy ==
    \/ CallDeployLinaro
    \/ GenerateTarballs
    \/ ReadBootTarball
    \/ AsMasterProbe
    \/ BootMachine
    \/ FormatTestPartition
    \/ DeployRootfsMount
    \/ DeployRootfsExtract
    \/ DeployRootfsDivert
    \/ DeployBootfsMount
    \/ DeployBootfsExtract
    \/ DeployBootfsUmount
    \/ DeployExcept
    \/ CallDeployAndroid
    \/ AndroidDownload
    \/ AndroidDeployBoot
    \/ AndroidBootDone
    \/ AndroidDeploySystem
    \/ AndroidSystemDone
    \/ AndroidDeployData
    \/ AndroidDataDone
    \/ AndroidPurge
    \/ CheckExtension
    \/ TransferLoop
    \/ RunTransfer
    \/ Backoff

SpecDeploy == InitTransfer /\ [][NextDeploy]_vars

NextTransfer ==
    \/ CallTargetExtract
    \/ CheckExtension
    \/ TransferLoop
    \/ RunTransfer
    \/ Backoff
    \/ CallExtractTarball
    \/ ExtractMount
    \/ ExtractCall
    \/ ExtractFinally
    \/ CallFileSystem
    \/ FsMount
    \/ FsPrepare
    \/ FsStartServer
    \/ FsDownload
    \/ FsUnpack
    \/ FsYield
    \/ FsInnerFinally
    \/ FsOuterFinally
    \/ CallDeployTarballs
    \/ FormatTestPartition
    \/ DeployRootfsMount
    \/ DeployRootfsExtract
    \/ DeployRootfsDivert
    \/ DeployBootfsMount
    \/ DeployBootfsExtract
    \/ DeployBootfsUmount
    \/ DeployExcept
    \/ AsMasterProbe
    \/ BootMachine

SpecTransfer == InitTransfer /\ [][NextTransfer]_vars

(***************************************************************************)
(* The command runner of the master image: CommandRunner.run as the        *)
(* callers of this module use it, and the probes built on it.              *)
(***************************************************************************)
\* exit codes a command of the device may end with
ExitCodes == {0, 1, 2, 126, 127, 255}

\* the decimal digits the shell prints for $? in the prompt [rc=...]
RECURSIVE ToDigits(_)
ToDigits(n) == IF n < 10 THEN <<n>> ELSE Append(ToDigits(n \div 10), n % 10)

\* int(match.group(1)) on the digits captured by the prompt pattern
RECURSIVE ParseInt(_)
ParseInt(d) ==
    IF d = <<>> THEN 0
    ELSE 10 * ParseInt(SubSeq(d, 1, Len(d) - 1)) + d[Len(d)]

\* no exit code: None where an exit code may stand
NoRc == <<>>

\* MasterCommandRunner.__init__: prompt_str_includes_rc=True
PromptStrIncludesRcOff == FALSE
PromptStrIncludesRc == TRUE

\* the pattern lists run is called with: the success prompt alone (default)
\* or patterns of the caller, with or without pexpect.EOF and pexpect.TIMEOUT
PatternLists ==
    { <<"prompt">>, <<"pattern">>, <<"pattern", "EOF", "TIMEOUT">> }
RunInputs == [patterns : PatternLists, failok : BOOLEAN]

\* what the device answers: the prompt with the exit code of the command,
\* output that holds the caller's pattern, nothing, or a closed stream
DeviceReplies ==
    [k : {"prompt"}, code : ExitCodes]
    \cup [k : {"pattern", "TIMEOUT", "EOF"}, code : {0}]

\* index (from 1, 0: none) of the first element of patterns equal to k
FirstIndex(patterns, k) ==
    IF \E i \in 1..Len(patterns) : patterns[i] = k
    THEN CHOOSE i \in 1..Len(patterns) :
           /\ patterns[i] = k
           /\ \A j \in 1..(i - 1) : patterns[j] # k
    ELSE 0

\* expect(patterns): the element that matches the reply; output that matches
\* none of the patterns ends in a timeout
Matched(patterns, reply) ==
    IF FirstIndex(patterns, reply.k) > 0 THEN reply.k
    ELSE IF reply.k = "EOF" THEN "EOF"
    ELSE "TIMEOUT"

\* state the command runner leaves alone
notRunner == <<fixed, localVars, master_ip, boot_cmds_dynamic, imageVars,
               histVars, url, num_retry, console, teBase, pending, clock,
               deadline, probes, xchg, parts>>

\* runner.run(cmd, patterns, failok=...)
CallRun ==
    /\ pc = "idle"
    /\ op' = "run"
    /\ \E in \in RunInputs : run_in' = in
    /\ pc' = "run_await"
    /\ stack' = <<"returned">>
    /\ UNCHANGED <<notRunner, label, device_version, exc, cause, run_out>>

\* is_file_exist(path): rc = self.run('ls %s > /dev/null' % path, failok=True)
CallIsFileExist ==
    /\ pc = "idle"
    /\ op' = "is_file_exist"
    /\ run_in' = [patterns |-> <<"prompt">>, failok |-> TRUE]
    /\ pc' = "run_await"
    /\ stack' = <<"ife_result", "returned">>
    /\ UNCHANGED <<notRunner, label, device_version, exc, cause, run_out>>

\* the labels has_partition_with_label is asked for; "" is the empty label
Labels == {"", "userdata", "sdcard"}

\* has_partition_with_label(label): if not label: return False; otherwise
\* is_file_exist('/dev/disk/by-label/%s' % label)
CallHasPartitionWithLabel ==
    /\ pc = "idle"
    /\ op' = "has_partition_with_label"
    /\ \E l \in Labels :
         /\ label' = l
         /\ IF l = ""
            THEN /\ run_out' = [code |-> 0, matched |-> "none",
                                match_id |-> -1, captured |-> <<>>,
                                rc |-> NoRc, result |-> FALSE]
                 /\ pc' = "returned"
                 /\ UNCHANGED <<stack, run_in>>
            ELSE /\ run_in' = [patterns |-> <<"prompt">>, failok |-> TRUE]
                 /\ pc' = "run_await"
                 /\ stack' = <<"ife_result", "returned">>
                 /\ UNCHANGED run_out
    /\ UNCHANGED <<notRunner, device_version, exc, cause>>

\* get_device_version(): self.run(echo ..., [pattern, EOF, TIMEOUT], timeout=5)
CallGetDeviceVersion ==
    /\ pc = "idle"
    /\ op' = "get_device_version"
    /\ run_in' = [patterns |-> <<"pattern", "EOF", "TIMEOUT">>,
                  failok |-> FALSE]
    /\ pc' = "run_await"
    /\ stack' = <<"gdv_result", "returned">>
    /\ UNCHANGED <<notRunner, label, device_version, exc, cause, run_out>>

\* the command is sent and the patterns are awaited: a timeout or a closed
\* stream that the caller did not list raises
RunAwait ==
    /\ pc = "run_await"
    /\ \E reply \in DeviceReplies :
         LET m == Matched(run_in.patterns, reply)
         IN  /\ run_out' = [code |-> reply.code,
                            matched |-> m,
                            match_id |-> FirstIndex(run_in.patterns, m) - 1,
                            captured |-> IF m = "prompt"
                                         THEN ToDigits(reply.code) ELSE <<>>,
                            rc |-> NoRc,
                            result |-> FALSE]
             /\ IF FirstIndex(run_in.patterns, m) = 0
                THEN Raise(m, "run")
                ELSE pc' = "run_classify" /\ UNCHANGED <<stack, exc, cause>>
    /\ UNCHANGED <<notRunner, label, device_version, op, run_in>>

\* the exit code is read from the prompt that matched; non-zero raises
\* OperationFailed unless failok; another pattern carries no exit code
RunClassify ==
    /\ pc = "run_classify"
    /\ LET rc == IF run_out.matched = "prompt" /\ PromptStrIncludesRc
                 THEN <<ParseInt(run_out.captured)>>
                 ELSE NoRc
       IN  /\ run_out' = [run_out EXCEPT !.rc = rc]
           /\ IF rc # NoRc /\ rc[1] # 0 /\ ~run_in.failok
              THEN Raise("OperationFailed", "run")
              ELSE Return /\ UNCHANGED <<exc, cause>>
    /\ UNCHANGED <<notRunner, label, device_version, op, run_in>>

\* is_file_exist: if rc == 0: return True; return False
IsFileExistResultAnyRc ==
    /\ pc = "ife_result"
    /\ run_out' = [run_out EXCEPT !.result = (run_out.rc # NoRc)]
    /\ Return
    /\ UNCHANGED <<notRunner, label, device_version, op, run_in, exc, cause>>
IsFileExistResult ==
    /\ pc = "ife_result"
    /\ run_out' = [run_out EXCEPT !.result = (run_out.rc = <<0>>)]
    /\ Return
    /\ UNCHANGED <<notRunner, label, device_version, op, run_in, exc, cause>>

\* get_device_version: the version when match_id == 0, else None and a warning
GetDeviceVersionResult ==
    /\ pc = "gdv_result"
    /\ device_version' = IF run_out.match_id = 0
                         THEN "2013-01/2013-02" ELSE None
    /\ Return
    /\ UNCHANGED <<notRunner, label, op, run_in, run_out, exc, cause>>

InitRunner ==
    /\ Init
    /\ config.boot_retries = 1
    /\ config.testboot_offset = 0
    /\ ~config.lava_proxy
    /\ ~config.read_boot_cmds_from_image

NextRunner ==
    \/ CallRun
    \/ CallIsFileExist
    \/ CallHasPartitionWithLabel
    \/ CallGetDeviceVersion
    \/ RunAwait
    \/ RunClassify
    \/ IsFileExistResult
    \/ GetDeviceVersionResult

SpecRunner == InitRunner /\ [][NextRunner]_vars

(***************************************************************************)
(* LavaClient (lava_dispatcher/client.py): the shell-role probes, the      *)
(* plain command execution and the wait for the network.                   *)
(***************************************************************************)
\* default of the parameter timeout of wait_network_up, in seconds
DefaultWaitTimeout == 120
\* ping -W4: seconds ping waits for the answer to its single packet
PingWait == 4
\* timeout of the expect for the ping summary in check_network_up
PingExpectTimeout == 5

\* state the client operations leave alone
notClient == <<fixed, localVars, targetVars, histVars, cacheWrites, lastRead,
               boot_file, boot_cmds, sent_cmds, url, num_retry, teBase,
               pending, label, xchg, parts>>

\* in_master_shell / in_test_shell: sendline("")
CallInShell ==
    /\ pc = "idle"
    /\ \E o \in {"in_master_shell", "in_test_shell"} : op' = o
    /\ run_in' = [response |-> IF op' = "in_master_shell"
                               THEN "master_str" ELSE "tester_str"]
    /\ run_out' = [reply |-> "none", id |-> 0]
    /\ pc' = "sh_expect"
    /\ stack' = <<"returned">>
    /\ UNCHANGED <<notClient, console, boot_in, exc, cause, clock, deadline, probes>>

\* id = self.proc.expect([prompt, pexpect.TIMEOUT]); if id == 1: raise
\* OperationFailed; a closed stream raises pexpect.EOF
InShellExpectIgnoresTimeout ==
    /\ pc = "sh_expect"
    /\ \E r \in AwaitResults :
         /\ run_out' = [reply |-> r, id |-> IF r = "timeout" THEN 1 ELSE 0]
         /\ IF r = "eof"
            THEN Raise("EOF", "expect")
            ELSE Return /\ UNCHANGED <<exc, cause>>
    /\ UNCHANGED <<notClient, console, boot_in, op, run_in, clock, deadline, probes>>
InShellExpect ==
    /\ pc = "sh_expect"
    /\ \E r \in AwaitResults :
         /\ run_out' = [reply |-> r, id |-> IF r = "timeout" THEN 1 ELSE 0]
         /\ IF r = "eof"
            THEN Raise("EOF", "expect")
            ELSE IF run_out'.id = 1
                 THEN Raise("OperationFailed", "expect")
                 ELSE Return /\ UNCHANGED <<exc, cause>>
    /\ UNCHANGED <<notClient, console, boot_in, op, run_in, clock, deadline, probes>>

\* run_shell_command(cmd, response, timeout), also through run_cmd_master
\* and run_cmd_tester: sendline(cmd)
CallRunShellCommand ==
    /\ pc = "idle"
    /\ op' = "run_shell_command"
    /\ \E resp \in {None, "", "master_str", "tester_str"} :
         run_in' = [response |-> resp]
    /\ run_out' = [reply |-> "none", id |-> 0]
    /\ pc' = "rsc_expect"
    /\ stack' = <<"returned">>
    /\ UNCHANGED <<notClient, console, boot_in, exc, cause, clock, deadline, probes>>

\* if response: self.proc.expect(response, timeout=timeout)
RunShellExpect ==
    /\ pc = "rsc_expect"
    /\ IF run_in.response \in {None, ""}
       THEN Return /\ UNCHANGED <<exc, cause, run_out>>
       ELSE \E r \in AwaitResults :
              /\ run_out' = [reply |-> r, id |-> 0]
              /\ IF Expect(r) = "ok"
                 THEN Return /\ UNCHANGED <<exc, cause>>
                 ELSE Raise(Expect(r), "expect")
    /\ UNCHANGED <<notClient, console, boot_in, op, run_in, clock, deadline, probes>>

\* wait_network_up(timeout=120): now = time.time()
CallWaitNetworkUp ==
    /\ pc = "idle"
    /\ op' = "wait_network_up"
    /\ deadline' = clock + DefaultWaitTimeout
    /\ probes' = 0
    /\ run_in' = [response |-> "master_str"]
    /\ run_out' = [reply |-> "none", id |-> 0]
    /\ pc' = "wn_loop"
    /\ stack' = <<"returned">>
    /\ UNCHANGED <<notClient, console, boot_in, exc, cause, clock>>

\* while time.time() < now+timeout: ...; raise NetworkError
WaitLoopTest ==
    /\ pc = "wn_loop"
    /\ IF clock < deadline
       THEN pc' = "wn_ping" /\ UNCHANGED <<stack, exc, cause>>
       ELSE Raise("NetworkError", "wait_network_up")
    /\ UNCHANGED <<notClient, console, boot_in, op, run_in, run_out, clock, deadline, probes>>

\* what the console shows after the ping, and the seconds it takes
PingReplies ==
    { [reply |-> "1 received", id |-> 0, secs |-> 1],
      [reply |-> "0 received", id |-> 1, secs |-> PingWait],
      [reply |-> "Network is unreachable", id |-> 2, secs |-> 1],
      [reply |-> "timeout", id |-> 0, secs |-> PingExpectTimeout],
      [reply |-> "eof", id |-> 0, secs |-> 1] }

\* check_network_up: sendline("ping -W4 -c1 ..."); id = expect(["1 received",
\* "0 received", "Network is unreachable"], timeout=5)
PingExpect ==
    /\ pc = "wn_ping"
    /\ probes' = probes + 1
    /\ \E a \in PingReplies :
         /\ clock' = clock + a.secs
         /\ run_out' = [reply |-> a.reply, id |-> a.id]
         /\ IF a.reply = "timeout"
            THEN Raise("TIMEOUT", "check_network_up")
            ELSE IF a.reply = "eof"
                 THEN Raise("EOF", "check_network_up")
                 ELSE pc' = "wn_prompt" /\ UNCHANGED <<stack, exc, cause>>
    /\ UNCHANGED <<notClient, console, boot_in, op, run_in, deadline>>

\* check_network_up: self.proc.expect(self.master_str); return id == 0;
\* wait_network_up returns when that is True and loops when it is False
PingPrompt ==
    /\ pc = "wn_prompt"
    /\ \E r \in AwaitResults :
         IF Expect(r) = "ok"
         THEN IF run_out.id = 0
              THEN Return /\ UNCHANGED <<exc, cause>>
              ELSE pc' = "wn_loop" /\ UNCHANGED <<stack, exc, cause>>
         ELSE Raise(Expect(r), "check_network_up")
    /\ UNCHANGED <<notClient, console, boot_in, op, run_in, run_out, clock, deadline, probes>>

InitClient ==
    /\ Init
    /\ config.boot_retries = 1
    /\ config.testboot_offset = 0
    /\ ~config.lava_proxy
    /\ ~config.read_boot_cmds_from_image

NextClient ==
    \/ CallInShell
    \/ InShellExpect
    \/ CallRunShellCommand
    \/ RunShellExpect
    \/ CallWaitNetworkUp
    \/ WaitLoopTest
    \/ PingExpect
    \/ PingPrompt

SpecClient == InitClient /\ [][NextClient]_vars

(***************************************************************************)
(* LavaClient.boot_linaro_image: the test image is booted by typing the    *)
(* boot commands of the board at the U-Boot prompt.                        *)
(***************************************************************************)
\* self.board.type of the boards, and the prompt the loop awaits for each
BoardTypes == {"mx51evk", "mx53loco", "snowball_sd", "panda"}
UbootPrompt(type) ==
    IF type \in {"mx51evk", "mx53loco"} THEN ">"
    ELSE IF type = "snowball_sd" THEN "\\$"
    ELSE "#"

\* self.board.uboot_cmds: lists of one to three command lines
UbootLines == <<"mmc init", "setenv bootargs", "boot">>
UbootCmds == {SubSeq(UbootLines, i, 3) : i \in 1..3}

\* events of the trace `console` of a LavaClient
SendReboot == "sendline: reboot"
SendTilde == "send: ~$"
SendHardReset == "sendline: hardreset"
SawAutoboot == "expect: Hit any key to stop autoboot"
SendEmpty == "sendline: "
SawPrompt(type) ==
    IF UbootPrompt(type) = ">" THEN "expect: >"
    ELSE IF UbootPrompt(type) = "\\$" THEN "expect: \\$"
    ELSE "expect: #"

\* the command lines sent so far, in the order they were sent
IsUbootLine(e) == \E i \in 1..Len(UbootLines) : e = UbootLines[i]
SentLines == SelectSeq(console, IsUbootLine)

\* what boot_linaro_image leaves alone
notBoot == <<fixed, localVars, targetVars, histVars, cacheWrites, lastRead,
             boot_file, boot_cmds, sent_cmds, url, num_retry, teBase, pending,
             label, xchg, parts, clock, deadline, probes>>

\* boot_linaro_image(): self.soft_reboot() is sendline("reboot")
CallBootLinaroImageClient ==
    /\ pc = "idle"
    /\ op' = "boot_linaro_image"
    /\ \E t \in BoardTypes, cmds \in UbootCmds :
         boot_in' = [type |-> t, uboot_cmds |-> cmds]
    /\ console' = <<SendReboot>>
    /\ pc' = "cb_enter"
    /\ stack' = <<"returned">>
    /\ UNCHANGED <<notBoot, exc, cause, run_in, run_out>>

\* try: self.enter_uboot() -- expect("Hit any key to stop autoboot") and
\* sendline(""); `except:` catches whatever the expect raises
EnterUboot ==
    /\ pc = "cb_enter"
    /\ \E r \in AwaitResults :
         IF Expect(r) = "ok"
         THEN /\ console' = console \o <<SawAutoboot, SendEmpty>>
              /\ pc' = "cb_first"
         ELSE /\ pc' = "cb_hard"
              /\ UNCHANGED console
    /\ UNCHANGED <<notBoot, stack, exc, cause, op, boot_in, run_in, run_out>>

\* in the handler: self.hard_reboot(); self.enter_uboot()
HardRebootEnterUbootSendsAnyway ==
    /\ pc = "cb_hard"
    /\ \E r \in AwaitResults :
         /\ console' = console \o <<SendTilde, SendHardReset>> \o
                         (IF Expect(r) = "ok"
                          THEN <<SawAutoboot, SendEmpty>> ELSE <<>>)
         /\ pc' = "cb_first"
         /\ UNCHANGED <<stack, exc, cause>>
    /\ UNCHANGED <<notBoot, op, boot_in, run_in, run_out>>
HardRebootEnterUboot ==
    /\ pc = "cb_hard"
    /\ \E r \in AwaitResults :
         /\ console' = console \o <<SendTilde, SendHardReset>> \o
                         (IF Expect(r) = "ok"
                          THEN <<SawAutoboot, SendEmpty>> ELSE <<>>)
         /\ IF Expect(r) = "ok"
            THEN pc' = "cb_first" /\ UNCHANGED <<stack, exc, cause>>
            ELSE Raise(Expect(r), "enter_uboot")
    /\ UNCHANGED <<notBoot, op, boot_in, run_in, run_out>>

\* self.proc.sendline(uboot_cmds[0])
SendFirstLine ==
    /\ pc = "cb_first"
    /\ console' = Append(console, boot_in.uboot_cmds[1])
    /\ pc' = "cb_loop"
    /\ UNCHANGED <<notBoot, stack, exc, cause, op, boot_in, run_in, run_out>>

\* for line in range(1, len(uboot_cmds)): expect(<prompt of the board>,
\* timeout=300); sendline(uboot_cmds[line]); after the loop in_test_shell()
\* begins with sendline("")
SendNextLineUnprompted ==
    /\ pc = "cb_loop"
    /\ Len(SentLines) < Len(boot_in.uboot_cmds)
    /\ \E r \in AwaitResults :
         console' = console \o
                    (IF Expect(r) = "ok"
                     THEN <<SawPrompt(boot_in.type)>> ELSE <<>>) \o
                    <<boot_in.uboot_cmds[Len(SentLines) + 1]>>
    /\ UNCHANGED <<notBoot, pc, stack, exc, cause, op, boot_in, run_in,
                   run_out>>
SendNextLine ==
    /\ pc = "cb_loop"
    /\ IF Len(SentLines) < Len(boot_in.uboot_cmds)
       THEN /\ \E r \in AwaitResults :
                 IF Expect(r) = "ok"
                 THEN /\ console' = console \o
                           <<SawPrompt(boot_in.type),
                             boot_in.uboot_cmds[Len(SentLines) + 1]>>
                      /\ UNCHANGED <<pc, stack, exc, cause>>
                 ELSE /\ Raise(Expect(r), "uboot_prompt")
                      /\ UNCHANGED console
            /\ UNCHANGED <<run_in, run_out>>
       ELSE /\ run_in' = [response |-> "tester_str"]
            /\ run_out' = [reply |-> "none", id |-> 0]
            /\ pc' = "sh_expect"
            /\ UNCHANGED <<console, stack, exc, cause>>
    /\ UNCHANGED <<notBoot, op, boot_in>>

InitBoot ==
    /\ Init
    /\ config.boot_retries = 1
    /\ config.testboot_offset = 0
    /\ ~config.lava_proxy
    /\ ~config.read_boot_cmds_from_image

\* the test image is booted through MasterImageTarget._boot_linaro_image or
\* through LavaClient.boot_linaro_image
NextBoot ==
    \/ CallBootLinaroImage
    \/ BootSoftReboot
    \/ BootEnterBootloader
    \/ BootHardReboot
    \/ CustomizeBootloader
    \/ CallBootLinaroImageClient
    \/ EnterUboot
    \/ HardRebootEnterUboot
    \/ SendFirstLine
    \/ SendNextLine
    \/ InShellExpect

SpecBoot == InitBoot /\ [][NextBoot]_vars

(***************************************************************************)
(* Properties of boot_master_image and _as_master.                         *)
(***************************************************************************)
SoftSteps == {"bmi_soft_reboot", "bmi_soft_banner", "bmi_soft_prompt"}
HardSteps == {"bmi_hard_reboot", "bmi_hard_banner", "bmi_hard_prompt"}
BootSteps ==
    SoftSteps \cup HardSteps \cup
    {"bmi_loop", "bmi_set_ps1", "bmi_get_ip", "bmi_get_version", "bmi_proxy",
     "bmi_after_loop"}
SoftFailures == {"reboot_timeout", "banner_timeout", "prompt_timeout"}
HardFailures == {"timeout"}
FailedSoftPaths == {i \in 1..Len(softLog) : softLog[i] \in SoftFailures}

\* C1: when every attempt fails (at a reboot or banner wait, at a prompt wait
\* or at the network query), boot_master_image leaves only by raising
\* CriticalError, and does so after exactly boot_retries attempts.
C1_ExactlyNAttemptsThenCritical ==
    (pc = "raised" /\ cause \in {"exhausted", "set_ps1", "get_ip"}
        /\ exc # "EOF")
    => (exc = "CriticalError" /\ softSent = config.boot_retries)

C3_NetworkFailureNeverEscapes ==
    ~(pc = "raised" /\ cause = "get_ip" /\ attempts < config.boot_retries)

\* C4: every recoverable failure (OperationFailed, await timeout) of a step of
\* an attempt, the PS1 step and the proxy export included, is absorbed by the
\* retry loop: the only exception that leaves boot_master_image is
\* CriticalError, with the retry count exhausted.
C4_OnlyCriticalErrorEscapes ==
    (pc = "raised" /\ cause \in {"exhausted", "set_ps1", "proxy"}
        /\ exc # "EOF")
    => (exc = "CriticalError" /\ attempts = config.boot_retries)

\* the two first attempts timed out at the boot-banner wait after their soft
\* reboot and failed, and boot_master_image has returned
C5_Scenario ==
    /\ config.boot_retries = 3
    /\ pc = "returned"
    /\ probe = "none"
    /\ Len(softLog) >= 2 /\ softLog[1] = "banner_timeout"
                         /\ softLog[2] = "banner_timeout"
    /\ Len(hardLog) >= 2 /\ hardLog[1] \in HardFailures
                         /\ hardLog[2] \in HardFailures

\* C5: with boot_retries = 3, two attempts whose soft reboot timed out at the
\* boot-banner wait and a third that succeeds: boot_master_image returns
\* normally in the master image, and the attempt it last logged is number 3.
C5_ThirdAttemptSucceeds ==
    C5_Scenario
    => /\ loggedAttempt = 3
       /\ softSent = 3
       /\ in_master_image
       /\ exc = "none"

C5_Witness == C5_Scenario /\ softLog = <<"banner_timeout", "banner_timeout", "ok">>

\* C6: a soft reboot that is not seen to start, or whose banner or prompt does
\* not come, is followed by a hard reset in the same attempt with the attempt
\* counter untouched; during the reboot steps the counter is incremented only
\* by the failure of the hard path.
C6_EscalationStep ==
    /\ (pc \in SoftSteps /\ Len(softLog') > Len(softLog)
          /\ softLog'[Len(softLog')] \in SoftFailures)
       => /\ pc' = "bmi_hard_reboot"
          /\ attempts' = attempts
          /\ loggedAttempt' = loggedAttempt
    /\ pc = "bmi_hard_reboot"
       => /\ hardSent' = hardSent + 1
          /\ attempts' = attempts
          /\ loggedAttempt' = loggedAttempt
    /\ (pc \in (SoftSteps \cup HardSteps) /\ attempts' # attempts)
       => /\ pc \in {"bmi_hard_banner", "bmi_hard_prompt"}
          /\ attempts' = attempts + 1
C6_SoftFailureEscalatesInSameAttempt == [][C6_EscalationStep]_vars

\* the soft path of the first attempt failed and its hard reset was issued
\* with no attempt counted
C6_Witness ==
    /\ pc = "bmi_hard_banner"
    /\ attempts = 0
    /\ hardSent = 1
    /\ softLog = <<"banner_timeout">>

\* C7: _as_master probes for the master prompt with the short timeout before
\* anything else; a probe that sees the prompt hands the runner over with no
\* reboot, and boot_master_image is entered from the probe only on a timeout.
C7_ProbeStep ==
    pc = "am_probe"
    => /\ awaitTimeout' = ProbeTimeout
       /\ ProbeTimeout = 10
       /\ softSent' = softSent /\ hardSent' = hardSent
       /\ probe' = "match" => (pc' = Head(stack) /\ pc' \notin BootSteps)
       /\ pc' \in BootSteps => (probe' = "timeout" /\ pc' = "bmi_loop")
C7_ProbeBeforeBoot ==
    /\ [][C7_ProbeStep]_vars
    /\ [](probe = "match" => (pc \notin BootSteps /\ softSent = 0 /\ hardSent = 0))

\* the probe saw the prompt and the runner was handed over without a reboot
C7_Witness == probe = "match" /\ pc = "returned" /\ softSent = 0

C9_CacheWrittenOnce ==
    /\ [][boot_cmds_dynamic # NoCmds
          => boot_cmds_dynamic' = boot_cmds_dynamic]_vars
    /\ [](cacheWrites <= 1)

\* with the cache holding the commands of one boot file, _read_boot_cmds was
\* called with a boot tarball that holds another boot file
C9_Witness ==
    /\ lastRead = <<"boot_tgz", 2>>
    /\ cacheWrites = 1
    /\ boot_cmds_dynamic = <<RewriteBootCmds(BootFiles[1], config.boot_device,
                                             config.testboot_offset)>>
    /\ boot_cmds_dynamic # <<RewriteBootCmds(BootFiles[2], config.boot_device,
                                             config.testboot_offset)>>

(***************************************************************************)
(* Properties of _rewrite_boot_cmds.                                       *)
(***************************************************************************)
\* the minor numbers of the partition references of a text, in order
RECURSIVE Minors(_)
Minors(s) ==
    IF s = <<>> THEN <<>>
    ELSE (IF IsPartRef(Head(s)) THEN <<Head(s).min>> ELSE <<>>)
         \o Minors(Tail(s))

\* the number of tokens of a text that are equal to t
RECURSIVE Occurrences(_, _)
Occurrences(s, t) ==
    IF s = <<>> THEN 0
    ELSE (IF Head(s) = t THEN 1 ELSE 0) + Occurrences(Tail(s), t)

\* C10: the commands read from a boot file hold every partition reference of
\* the file with its minor number offset by testboot_offset, and
\* root=LABEL=testrootfs in the place of every root=UUID=... argument,
\* whatever the number of references and of lines.
C10_EveryReferenceRewritten ==
    pc = "image_read"
    => LET out == JoinLines(boot_cmds_dynamic[1])
           in == Minors(boot_file)
       IN  /\ Occurrences(out, UuidArg) = 0
           /\ Occurrences(out, LabelArg) = Occurrences(boot_file, UuidArg)
           /\ Minors(out) = [i \in 1..Len(in) |-> in[i] + config.testboot_offset]

\* C11: rewriting commands that are free of root=UUID= arguments and whose
\* partition references are already offset, the output of a rewrite in
\* particular, gives back the very text that was rewritten.
C11_RewriteIdempotent ==
    pc = "image_reread" => JoinLines(boot_cmds_dynamic[1]) = boot_file

(***************************************************************************)
(* Properties of target_extract.                                           *)
(***************************************************************************)
TESteps == {"te_check", "te_loop", "te_run", "te_backoff"}
\* what the current (or last) call of target_extract added to the trace
Xfer == SubSeq(console, teBase + 1, Len(console))
\* number of occurrences of the event ev in the trace x
Count(x, ev) == Cardinality({i \in 1..Len(x) : x[i] = ev})
\* URLs whose extension is neither .gz, .tgz nor .bz2
UnsupportedUrls ==
    { <<"i">> \o DotXz, <<"i", ".", "t", "a", "r">>, <<"g", "z">> }

\* C12: on the step by which target_extract returns normally it has sent the
\* command K + 1 times and slept K times, K < 5 being the number of failed
\* transfers; on the step by which it gives up it has failed 5 times, sent the
\* command 5 times and raises; the command is never sent a 6th time.
C12_ExitStep ==
    (pc \in TESteps /\ pc' \notin TESteps)
    => LET x == SubSeq(console', teBase + 1, Len(console'))
           K == Count(x, WarnFailed)
       IN  /\ (pc = "te_run" /\ pending' = pending /\ exc' = exc)
              => /\ K < 5
                 /\ Count(x, SendTransfer) = K + 1
                 /\ Count(x, Sleep) = K
           /\ pc = "te_loop"
              => /\ K = 5
                 /\ Count(x, SendTransfer) = 5
                 /\ "RuntimeError" \in {pending', exc'}
C12_RetriesExact ==
    /\ [][C12_ExitStep]_vars
    /\ [](Count(Xfer, SendTransfer) <= 5)

\* target_extract returned after four failed transfers and a fifth that
\* succeeded
C12_Witness ==
    /\ op = "target_extract"
    /\ pc = "returned"
    /\ Count(console, WarnFailed) = 4
    /\ Count(console, SendTransfer) = 5
    /\ Count(console, Sleep) = 4

\* C13: a URL whose extension is neither gzip nor bzip2 makes target_extract
\* raise RuntimeError on its first step, with nothing sent to the device, no
\* sleep and the retry count untouched; the retry loop is never entered.
C13_CheckStep ==
    (pc = "te_check" /\ url \in UnsupportedUrls)
    => /\ console' = console
       /\ num_retry' = DefaultNumRetry
       /\ pc' \notin TESteps
       /\ "RuntimeError" \in {pending', exc'}
C13_BadExtensionRaisesAtOnce ==
    /\ [][C13_CheckStep]_vars
    /\ [](pc \in (TESteps \ {"te_check"}) => url \notin UnsupportedUrls)
    /\ []((op = "target_extract" /\ url \in UnsupportedUrls)
            => (console = <<>> /\ pc # "returned"))

\* target_extract was given a URL ending in .xz and raised
C13_Witness ==
    /\ op = "target_extract"
    /\ url = <<"i">> \o DotXz
    /\ pc = "raised"
    /\ exc = "RuntimeError"
    /\ console = <<>>

\* C14: what target_extract does between two consecutive sends of the command
\* is the warning, Ctrl-C, the echo and the sleep, in this order; once the last
\* attempt has failed neither an interrupt nor the command is sent again.
C14_InterruptBeforeResend ==
    LET x == Xfer
    IN  /\ \A i \in 1..Len(x) :
             (x[i] = SendTransfer
                /\ \E j \in (i + 1)..Len(x) : x[j] = SendTransfer)
             => /\ Len(x) >= i + 5
                /\ SubSeq(x, i + 1, i + 5)
                     = <<WarnFailed, CtrlC, EchoRetry, Sleep, SendTransfer>>
        /\ (op = "target_extract" /\ pc = "raised"
              /\ cause = "transfer_exhausted")
           => /\ Len(x) >= 2
              /\ SubSeq(x, Len(x) - 1, Len(x)) = <<SendTransfer, WarnFailed>>

\* all five attempts of a transfer failed
C14_Witness ==
    /\ op = "target_extract"
    /\ pc = "raised"
    /\ cause = "transfer_exhausted"
    /\ Count(console, CtrlC) = 4

(***************************************************************************)
(* Properties of the deployment pipeline and of the file exchange.         *)
(***************************************************************************)
\* C15: whatever fails in _deploy_tarballs once the master role is held
\* (formatting the test partitions, transferring the tarballs, the commands
\* of the helpers), the exception that reaches the caller is CriticalError.
C15_DeployFailureIsCritical ==
    (op = "_deploy_tarballs" /\ pc = "raised" /\ cause \in {"format", "deploy"})
    => exc = "CriticalError"

\* C16: when file_system is over, normally or not, and had mounted the
\* partition, the last things it did on the console are the interrupt of the
\* HTTP server and 'umount /mnt'.
C16_ServerKilledAndUnmounted ==
    (op = "file_system" /\ pc \in {"returned", "raised"}
       /\ Count(console, MountMnt) > 0)
    => /\ Len(console) >= 2
       /\ SubSeq(console, Len(console) - 1, Len(console)) = <<CtrlC, UmountMnt>>

\* the caller's host-side step raised and its exception came out of
\* file_system after the cleanup
C16_Witness ==
    /\ op = "file_system"
    /\ pc = "raised"
    /\ exc = "CallerError"
    /\ Count(console, StartServer) = 1
    /\ console[Len(console)] = UmountMnt

\* the umount command that matches a mount command
UmountOf(m) ==
    IF m = MountMnt THEN UmountMnt
    ELSE IF m = MountRoot THEN UmountRoot
    ELSE UmountBoot

\* C17: when an operation is over, normally or not, every mount it issued
\* with success has been followed by the matching umount.
C17_EveryMountUnmounted ==
    pc \in {"returned", "raised"}
    => \A i \in 1..Len(console) :
         console[i] \in {MountMnt, MountRoot, MountBoot}
         => \E j \in (i + 1)..Len(console) : console[j] = UmountOf(console[i])

(***************************************************************************)
(* Properties of the command runner.                                       *)
(***************************************************************************)
\* C18: when run matched the success prompt it returns the exit code the
\* prompt carries, or raises OperationFailed when that code is non-zero and
\* failok is not set; when it matched a pattern of the caller that is not the
\* prompt it returns without an exit code.
C18_ExitCodeFromPrompt ==
    (op = "run" /\ pc \in {"returned", "raised"})
    => /\ run_out.matched = "prompt"
          => IF run_out.code = 0 \/ run_in.failok
             THEN pc = "returned" /\ run_out.rc = <<run_out.code>>
             ELSE pc = "raised" /\ exc = "OperationFailed"
       /\ run_out.matched = "pattern"
          => pc = "returned" /\ run_out.rc = NoRc

\* a command ended with exit code 127 under failok and run returned 127
C18_Witness ==
    /\ op = "run"
    /\ pc = "returned"
    /\ run_in.failok
    /\ run_out.matched = "prompt"
    /\ run_out.captured = <<1, 2, 7>>
    /\ run_out.rc = <<127>>

(***************************************************************************)
(* Properties of LavaClient.                                               *)
(***************************************************************************)
\* C19: a shell-role probe or a command whose expected response was awaited
\* returns normally only when the response was matched; a timeout or a closed
\* stream comes out as an exception.
C19_NoSilentTimeout ==
    (op \in {"in_master_shell", "in_test_shell", "run_shell_command"}
       /\ pc \in {"returned", "raised"}
       /\ run_in.response \notin {None, ""})
    => /\ pc = "returned" <=> run_out.reply = "match"
       /\ pc = "raised" => exc \in {"OperationFailed", "TIMEOUT", "EOF"}

\* the probe for the master prompt timed out and raised OperationFailed
C19_Witness ==
    /\ op = "in_master_shell"
    /\ pc = "raised"
    /\ run_out.reply = "timeout"
    /\ exc = "OperationFailed"

\* C20: wait_network_up ends in one of two ways only: it returns after a
\* probe that succeeded, or it raises NetworkError once the overall timeout
\* has elapsed; a probe without answer never ends it with another exception.
C20_TwoOutcomes ==
    (op = "wait_network_up" /\ pc \in {"returned", "raised"})
    => \/ pc = "returned" /\ run_out.reply = "1 received"
       \/ pc = "raised" /\ exc = "NetworkError" /\ clock >= deadline


\* the existence probes of the master runner
ExistenceProbes == {"is_file_exist", "has_partition_with_label"}

\* C21: is_file_exist and has_partition_with_label return true exactly when
\* the exit code of the probe command is 0 and false for every other exit
\* code, and no exit code makes them raise; has_partition_with_label with an
\* empty label returns false and no command was sent
C21_ProbeIsExitCodeZero ==
    /\ (pc = "returned" /\ op \in ExistenceProbes) =>
          IF run_in = <<>>
          THEN label = "" /\ ~run_out.result
          ELSE /\ run_out.matched = "prompt"
               /\ run_out.result = (run_out.code = 0)
    /\ (op = "has_partition_with_label" /\ label = "") =>
          (run_in = <<>> /\ pc = "returned")
    /\ (pc = "raised" /\ op \in ExistenceProbes) =>
          exc \in {"TIMEOUT", "EOF"}
C21_Witness ==
    /\ pc = "returned"
    /\ op = "has_partition_with_label"
    /\ label = "sdcard"
    /\ run_out.code = 2
    /\ ~run_out.result

(***************************************************************************)
(* Properties of the boot of the test image.                               *)
(***************************************************************************)
\* the command lines were sent in the configured order, each once, up to here
InOrderSoFar ==
    /\ Len(SentLines) <= Len(boot_in.uboot_cmds)
    /\ SentLines = SubSeq(boot_in.uboot_cmds, 1, Len(SentLines))

\* every command line but the first comes right after the prompt of the
\* board family was seen, and that prompt was awaited after the line before
PromptBetweenLines ==
    \A i \in 1..Len(console) :
       (IsUbootLine(console[i]) /\ console[i] # boot_in.uboot_cmds[1]) =>
          /\ i > 2
          /\ console[i - 1] = SawPrompt(boot_in.type)
          /\ IsUbootLine(console[i - 2])

\* C22: LavaClient.boot_linaro_image sends the boot command lines in their
\* configured order, each exactly once; a line other than the first is sent
\* only after the bootloader prompt of the board family was observed
\* following the line before it; the shell check of the test image happens
\* only after the last line was sent
C22_LinesInOrderAfterPrompt ==
    (op = "boot_linaro_image") =>
       /\ InOrderSoFar
       /\ PromptBetweenLines
       /\ (pc \in {"sh_expect", "returned"}) =>
             SentLines = boot_in.uboot_cmds
C22_Witness ==
    /\ op = "boot_linaro_image"
    /\ pc = "returned"
    /\ boot_in.type = "snowball_sd"
    /\ SentLines = UbootLines

\* the bootloader was entered on the console of the LavaClient
UbootEntered ==
    \E i \in 1..Len(console) : console[i] = SawAutoboot
\* hard resets the LavaClient issued
ClientHardResets ==
    Cardinality({i \in 1..Len(console) : console[i] = SendHardReset})

\* where _boot and boot_linaro_image stand with their reboots and commands
BootEscalationState ==
    /\ (pc \in {"bl_enter", "bl_hard_reboot", "bl_customize"}) =>
          softSent = 1
    /\ (pc \in {"bl_soft_reboot", "bl_enter"}) => hardSent = 0
    /\ hardSent <= 1
    /\ (sent_cmds # NoCmds) => softSent = 1
    /\ (pc = "raised" /\ cause = "enter_bootloader") =>
          (softSent = 1 /\ hardSent = 1 /\ sent_cmds = NoCmds)
    /\ (op = "boot_linaro_image") =>
          /\ console[1] = SendReboot
          /\ ClientHardResets <= 1
          /\ (pc = "cb_enter") => ClientHardResets = 0
          /\ (SentLines # <<>> \/ pc = "cb_first") => UbootEntered
          /\ (pc = "raised" /\ cause = "enter_uboot") =>
                (ClientHardResets = 1 /\ SentLines = <<>>)
\* a hard reboot happens only out of a failed soft reboot or a failed entry
\* into the bootloader, and boot commands are handed over only from the
\* step that follows a successful entry
BootEscalationStep ==
    /\ (hardSent' > hardSent) => pc = "bl_hard_reboot"
    /\ (pc' = "bl_hard_reboot") => pc \in {"bl_soft_reboot", "bl_enter"}
    /\ (sent_cmds' # sent_cmds) => pc = "bl_customize"
    /\ (pc' = "bl_customize") => pc \in {"bl_enter", "bl_hard_reboot"}
    /\ (pc' = "cb_hard") => pc = "cb_enter"
    /\ (pc' = "cb_first") => pc \in {"cb_enter", "cb_hard"}

\* C23: booting the test image (_boot, boot_linaro_image) issues a soft
\* reboot first and tries to enter the bootloader; only after a failure it
\* issues a hard reboot, once, and tries again; boot commands are sent only
\* after the bootloader was entered; when the attempt after the hard reboot
\* fails too, an error reaches the caller and no boot command was sent
C23_SoftThenOneHardThenCommands ==
    []BootEscalationState /\ [][BootEscalationStep]_vars
C23_Witness ==
    /\ pc = "raised"
    /\ cause = "enter_bootloader"
    /\ hardSent = 1
    /\ sent_cmds = NoCmds

(***************************************************************************)
(* Properties of the file exchange.                                        *)
(***************************************************************************)
\* C24: when file_system returns and the caller's block did not modify the
\* host-side copy, the directory of the device holds what it held before the
\* call
C24_RoundTrip ==
    (op = "file_system" /\ pc = "returned" /\ ~xchg.modified) =>
       Content(xchg.dev, TargetDir(xchg.directory)) = xchg.before
C24_Witness ==
    /\ op = "file_system"
    /\ pc = "returned"
    /\ ~xchg.modified
    /\ xchg.entered
    /\ xchg.directory = <<"lava", "bin">>
    /\ Cardinality(xchg.before) = 3
    /\ Content(xchg.dev, TargetDir(xchg.directory)) = xchg.before

\* the banner of the HTTP server was awaited and did not match
BannerMissed ==
    /\ op = "file_system"
    /\ xchg # <<>>
    /\ xchg.port = 0
    /\ \E i \in 1..Len(console) : console[i] = StartServer

\* C25: when the banner of the HTTP server is not matched, file_system
\* raises CriticalError at once; the host never attempts the download and
\* the caller's block is never entered
C25_NoBannerIsCritical ==
    /\ [](BannerMissed =>
            (~xchg.fetched /\ ~xchg.entered /\ pc # "returned"))
    /\ [][(pc = "fs_server" /\ xchg'.port = 0) =>
            (pending' = "CriticalError" /\ pc' = "fs_outer_finally")]_vars
C25_Witness ==
    /\ BannerMissed
    /\ pc = "fs_outer_finally"
    /\ pending = "CriticalError"

(***************************************************************************)
(* Termination of boot_master_image.                                       *)
(***************************************************************************)
\* boot_master_image is over
BootMasterDone == pc \in {"returned", "raised"}

\* the steps that lead to success: the PS1 pattern is awaited and matched,
\* then the address and the version are read, then the proxy is exported
ConfirmedStep ==
    /\ (pc' = "bmi_get_ip" /\ pc # "bmi_get_ip") =>
          (pc = "bmi_set_ps1" /\ awaitTimeout' = PS1Timeout)
    /\ (pc' = "bmi_get_version" /\ pc # "bmi_get_version") =>
          pc = "bmi_get_ip"
    /\ (pc' = "bmi_proxy" /\ pc # "bmi_proxy") => pc = "bmi_get_version"
    /\ (in_master_image' /\ ~in_master_image) =>
          (pc = "bmi_proxy" /\ UNCHANGED <<attempts, loggedAttempt>>)
    /\ (pc' = "returned" /\ pc # "returned") => pc = "bmi_after_loop"

\* C26: boot_master_image terminates for every retry count and every
\* sequence of await outcomes; it ends by returning or by raising an
\* exception, and it returns only with the master prompt confirmed through
\* the PS1 pattern in the last attempt it started
C26_TerminatesLoudly ==
    /\ <>BootMasterDone
    /\ [](pc = "raised" => exc # "none")
    /\ [](pc = "returned" =>
            (in_master_image /\ loggedAttempt = attempts + 1))
    /\ [][ConfirmedStep]_vars
C26_Witness ==
    /\ pc = "returned"
    /\ in_master_image
    /\ config.boot_retries = MaxRetries
    /\ loggedAttempt = MaxRetries

(***************************************************************************)
(* Properties of the deployments.                                          *)
(***************************************************************************)
\* the event was sent before position i of the trace
SentBefore(e, i) == \E j \in 1..(i - 1) : console[j] = e
Sent(e) == SentBefore(e, Len(console) + 1)

\* formatting begins only out of a matched prompt probe or out of a
\* boot_master_image that succeeded, and no reboot follows it
MasterRoleStep ==
    /\ (pc' = "dt_format" /\ pc # "dt_format") =>
          \/ pc = "am_probe" /\ probe' = "match"
          \/ pc = "bmi_after_loop" /\ in_master_image
    /\ (softSent' > softSent \/ hardSent' > hardSent) => console = <<>>
    /\ (console' # console /\ console = <<>>) => pc = "dt_format"

\* C27: in a deployment the master role is ensured before a partition is
\* formatted, both test partitions are formatted before a tarball transfer
\* starts, and no transfer command is sent outside the master role: no
\* reboot happens between the formatting and the transfers
C27_MasterFormatTransfer ==
    /\ [](\A i \in 1..Len(console) :
            (console[i] = SendTransfer) =>
               (SentBefore(FormatRootfs, i) /\ SentBefore(FormatBoot, i)))
    /\ [][MasterRoleStep]_vars
C27_Witness ==
    /\ op = "deploy_android"
    /\ pc = "returned"
    /\ Sent(FormatRootfs)
    /\ Sent(FormatBoot)
    /\ Sent(SendTransfer)
    /\ probe = "timeout"

\* C29: deploy_android reformats the sdcard partition exactly when the
\* device has a partition labelled userdata and one labelled sdcard; the
\* data tarball goes to userdata when it exists and to sdcard otherwise, so
\* the purge never reformats the partition that received the data tarball
C29_PurgeOnlyBesideUserdata ==
    (op = "deploy_android") =>
       /\ Sent(PurgeSdcard) =>
             ({"userdata", "sdcard"} \subseteq parts /\ label = "userdata")
       /\ (pc = "returned") =>
             (Sent(PurgeSdcard) = ({"userdata", "sdcard"} \subseteq parts))
       /\ \A l \in {"userdata", "sdcard"} :
             Sent(FormatData(l)) =>
                /\ label = l
                /\ l = (IF "userdata" \in parts THEN "userdata" ELSE "sdcard")
       /\ ~(Sent(FormatData("sdcard")) /\ Sent(PurgeSdcard))
C29_Witness ==
    /\ op = "deploy_android"
    /\ pc = "returned"
    /\ parts = {"userdata", "sdcard"}
    /\ Sent(FormatData("userdata"))
    /\ Sent(PurgeSdcard)

(***************************************************************************)
(* Properties of the fields of the Target.                                 *)
(***************************************************************************)
\* C28: with read_boot_cmds_from_image false the cache of dynamic boot
\* commands stays null whatever is deployed, and _boot_linaro_image takes
\* the boot commands from the job file or from the device configuration,
\* never from an image
C28_NoDynamicCmdsUnlessConfigured ==
    (~config.read_boot_cmds_from_image) =>
       /\ boot_cmds_dynamic = NoCmds
       /\ cacheWrites = 0
       /\ (boot_cmds # NoCmds) =>
             boot_cmds = (IF boot_in.job_file THEN JobFileCmds
                          ELSE IF boot_in.opt \notin {"absent", "boot_cmds"}
                               THEN ConfigCmds(boot_in.opt)
                               ELSE ConfigCmds(DefaultKey))
C28_Witness ==
    /\ ~config.read_boot_cmds_from_image
    /\ lastRead = <<"boot_tgz", 1>>
    /\ pc = "returned"
    /\ boot_cmds_dynamic = NoCmds

\* C30: every soft and every hard reboot resets master_ip to null; it
\* becomes non-null only through the address query of boot_master_image, and
\* is non-null only after a master boot that succeeded since the last
\* reboot: a boot_master_image that fails leaves it null, and so does the
\* boot of the test image
C30_MasterIpOnlyAfterSuccessfulBoot ==
    /\ [][(softSent' > softSent \/ hardSent' > hardSent) =>
            master_ip' = None]_vars
    /\ [][(master_ip' # master_ip /\ master_ip' # None) =>
            pc = "bmi_get_ip"]_vars
    /\ [][(pc \in BootSteps /\ pc' = "raised") => master_ip' = None]_vars
    /\ []((pc \in {"bl_enter", "bl_hard_reboot", "bl_customize"}
           \/ sent_cmds # NoCmds) => master_ip = None)

(***************************************************************************)
(* The way back of file_system.                                            *)
(***************************************************************************)
\* the caller's block of file_system was entered
BlockEntered == op = "file_system" /\ xchg # <<>> /\ xchg.entered
\* what the host-side copy would put into the directory of the device
HostCopy ==
    Content(TarExtract({}, xchg.tf, ParentDir(xchg.directory)),
            TargetDir(xchg.directory))
\* the block is left for the cleanup, however it ended
BlockStep ==
    pc = "fs_yield" =>
       /\ pc' = "fs_inner_finally"
       /\ pending' \in {"none", "CallerError"}
       /\ xchg'.dev = xchg.dev
\* the cleanup after the block either fails itself or removes the directory
\* and only then starts the upload of the host copy, keeping the exception
\* of the block in flight
CleanupStep ==
    (pc = "fs_inner_finally" /\ BlockEntered) =>
       \/ /\ pc' = "fs_outer_finally"
          /\ pending' \notin {"none", "CallerError"}
       \/ /\ pc' = "te_check"
          /\ pending' = pending
          /\ Under(xchg'.dev, TargetDir(xchg.directory)) = {}
          /\ xchg'.tf = MkTargz(xchg.host, TfDir)
          /\ xchg'.dest = ParentDir(xchg.directory)
          /\ console'[Len(console')] = RemoveTarget
          /\ \A i \in 1..Len(console') : console'[i] # SendTransfer
\* the upload of file_system has failed after its retries
UploadExhausted ==
    /\ BlockEntered
    /\ \/ pc = "fs_outer_finally" /\ pending = "RuntimeError"
       \/ pc = "raised" /\ exc = "RuntimeError" /\ cause = "file_system"
\* C31: once the caller's block of file_system has been entered, the cleanup
\* runs whether the block ended normally or with an exception: it removes
\* the directory of the device and then uploads the host copy, the removal
\* before the upload; when the upload fails after its retries the directory
\* is absent or holds what the failed upload wrote, and nothing restores
\* what it held before
C31_RemovedThenUploaded ==
    /\ [][BlockStep /\ CleanupStep]_vars
    /\ [](UploadExhausted =>
            LET now == Under(xchg.dev, TargetDir(xchg.directory))
            IN  \/ now = {}
                \/ Content(xchg.dev, TargetDir(xchg.directory)) = HostCopy)
C31_Witness ==
    /\ UploadExhausted
    /\ pc = "raised"
    /\ xchg.modified
    /\ xchg.before # {}
    /\ Under(xchg.dev, TargetDir(xchg.directory)) = {}

(***************************************************************************)
(* cmd_submit_results: the result bundles of a job are gathered from the   *)
(* device and from the host, combined and sent to the dashboard.           *)
(***************************************************************************)
\* most files in the result tarball of the device, and in host_result_dir
MaxFiles == 2

\* what processing one file does: the document loads and evolves, loading
\* raises ValueError, or something else is raised; a file of the device may
\* also lack the extension .bundle
HostFiles == {"ok", "ValueError", "Exception"}
DeviceFiles == HostFiles \cup {"not_bundle"}
FileLists(kinds) == UNION { [1..n -> kinds] : n \in 0..MaxFiles }

\* the document of the n-th file from a place: one test run of its own
TestRun(from, n) == [from |-> from, n |-> n, attributes |-> FALSE]
Doc(from, n) == [test_runs |-> <<TestRun(from, n)>>]
\* self.context.test_data.get_test_run()
JobTestRun == TestRun("job", 0)

\* 'Unknown error processing bundle' % fname
UnknownErrorMsg == PercentFormat(0)

\* what a gathering function hands its caller: the exception it raises if
\* any, the bundles it returns or attaches to the exception, and the
\* documents it had appended to its list when it left
Gathered(raised, bundles, appended) ==
    [raised |-> raised, bundles |-> bundles, appended |-> appended]

\* _get_bundles(files), from file i on
RECURSIVE GetBundlesFrom(_, _, _, _)
GetBundlesFrom(files, i, bundles, errors) ==
    IF i > Len(files)
    THEN Gathered(IF errors > 0 THEN "GatherResultsError" ELSE "none",
                  bundles, bundles)
    ELSE IF files[i] = "not_bundle"
         THEN GetBundlesFrom(files, i + 1, bundles, errors)
    ELSE IF files[i] = "ok"
         THEN GetBundlesFrom(files, i + 1,
                             Append(bundles, Doc("device", i)), errors)
    ELSE IF files[i] = "ValueError"
         THEN GetBundlesFrom(files, i + 1, bundles, errors + 1)
    ELSE IF UnknownErrorMsg = "ok"
         THEN GetBundlesFrom(files, i + 1, bundles, errors + 1)
         ELSE Gathered(UnknownErrorMsg, <<>>, bundles)
GetBundles(files) == GetBundlesFrom(files, 1, <<>>, 0)

\* _get_bundles_from_device(result_disk): GatherResultsError passes, any
\* other exception becomes a GatherResultsError without bundles
GetBundlesFromDevice(retrieve, files) ==
    IF retrieve = "error"
    THEN Gathered("GatherResultsError", <<>>, <<>>)
    ELSE IF retrieve = "none"
    THEN Gathered("none", <<>>, <<>>)
    ELSE LET g == GetBundles(files)
         IN  IF g.raised \in {"none", "GatherResultsError"} THEN g
             ELSE Gathered("GatherResultsError", <<>>, g.appended)

\* _get_results_from_host(), from file i on: ValueError is noted and the
\* loop goes on, any other exception ends it with the bundles so far
RECURSIVE GetResultsFrom(_, _, _, _)
GetResultsFrom(files, i, bundles, errors) ==
    IF i > Len(files)
    THEN Gathered(IF errors > 0 THEN "GatherResultsError" ELSE "none",
                  bundles, bundles)
    ELSE IF files[i] = "ok"
         THEN GetResultsFrom(files, i + 1,
                             Append(bundles, Doc("host", i)), errors)
    ELSE IF files[i] = "ValueError"
         THEN GetResultsFrom(files, i + 1, bundles, errors + 1)
         ELSE Gathered("GatherResultsError", bundles, bundles)
GetResultsFromHost(listdir, files) ==
    IF listdir = "error"
    THEN Gathered("GatherResultsError", <<>>, <<>>)
    ELSE GetResultsFrom(files, 1, <<>>, 0)

\* test_runs += bundle['test_runs'] for every bundle
RECURSIVE TestRunsOf(_)
TestRunsOf(bundles) ==
    IF bundles = <<>> THEN <<>>
    ELSE Head(bundles).test_runs \o TestRunsOf(Tail(bundles))

\* combine_bundles(all_bundles): the runs of all bundles, the run of the job
\* after them, the metadata of the job in the attributes of each
CombineBundles(all_bundles) ==
    LET runs == Append(TestRunsOf(all_bundles), JobTestRun)
    IN  [test_runs |-> [i \in 1..Len(runs) |->
                          [runs[i] EXCEPT !.attributes = TRUE]]]

\* the state of everything but the result submission
notSubmit == <<config, note, stack, bootState, extVars>>

\* run(server, stream, result_disk, token) begins
CallSubmitResults ==
    /\ pc = "idle"
    /\ sub = <<>>
    /\ \E dev \in BOOLEAN, host \in BOOLEAN,
          retrieve \in {"path", "none", "error"},
          listdir \in {"ok", "error"},
          dfiles \in FileLists(DeviceFiles), hfiles \in FileLists(HostFiles) :
         /\ retrieve # "path" => dfiles = <<>>
         /\ listdir # "ok" => hfiles = <<>>
         /\ sub' = [any_device_bundles |-> dev,
                    any_host_bundles |-> host,
                    retrieve |-> retrieve,
                    device_files |-> dfiles,
                    listdir |-> listdir,
                    host_files |-> hfiles,
                    all_bundles |-> <<>>,
                    status |-> "pass",
                    errors |-> 0,
                    appended |-> {},
                    results |-> <<>>,
                    main_bundle |-> <<>>,
                    put |-> <<>>]
    /\ pc' = "sr_device"
    /\ UNCHANGED <<notSubmit, exc, cause>>

\* what run does with the outcome g of a gathering function
Gather(g) ==
    sub' = [sub EXCEPT
              !.all_bundles = @ \o g.bundles,
              !.status = IF g.raised = "none" THEN @ ELSE "fail",
              !.errors = IF g.raised = "none" THEN @ ELSE @ + 1,
              !.appended = @ \cup {g.appended[i] : i \in 1..Len(g.appended)}]

\* if self.context.any_device_bundles: try ... except GatherResultsError
GatherFromDevice ==
    /\ pc = "sr_device"
    /\ IF sub.any_device_bundles
       THEN Gather(GetBundlesFromDevice(sub.retrieve, sub.device_files))
       ELSE UNCHANGED sub
    /\ pc' = "sr_host"
    /\ UNCHANGED <<notSubmit, exc, cause>>

\* if self.context.any_host_bundles: try ... except GatherResultsError
GatherFromHost ==
    /\ pc = "sr_host"
    /\ IF sub.any_host_bundles
       THEN Gather(GetResultsFromHost(sub.listdir, sub.host_files))
       ELSE UNCHANGED sub
    /\ pc' = "sr_result"
    /\ UNCHANGED <<notSubmit, exc, cause>>

\* add_result('gather_results', status, err_msg); combine_bundles
AddResultAndCombine ==
    /\ pc = "sr_result"
    /\ sub' = [sub EXCEPT
                 !.results = Append(@, [name |-> "gather_results",
                                        status |-> sub.status]),
                 !.main_bundle = CombineBundles(sub.all_bundles)]
    /\ pc' = "sr_submit"
    /\ UNCHANGED <<notSubmit, exc, cause>>

\* submit_bundle: dashboard.put_ex; xmlrpclib.Fault becomes OperationFailed
SubmitBundle ==
    /\ pc = "sr_submit"
    /\ sub' = [sub EXCEPT !.put = Append(@, sub.main_bundle)]
    /\ \E fault \in BOOLEAN :
         IF fault
         THEN /\ pc' = "raised"
              /\ exc' = "OperationFailed"
              /\ cause' = "dashboard"
         ELSE /\ pc' = "returned"
              /\ UNCHANGED <<exc, cause>>
    /\ UNCHANGED notSubmit

NextSubmit ==
    \/ CallSubmitResults
    \/ GatherFromDevice
    \/ GatherFromHost
    \/ AddResultAndCombine
    \/ SubmitBundle

\* the configuration of the device plays no part in the submission
SpecSubmit == InitTransfer /\ [][NextSubmit]_vars

\* run has been called and is over
SubmitOver == sub # <<>> /\ pc \in {"returned", "raised"}
\* the test runs of a document are in the bundle
PartOf(doc, bundle) ==
    \A i \in 1..Len(doc.test_runs) :
       \E j \in 1..Len(bundle.test_runs) :
          /\ bundle.test_runs[j].from = doc.test_runs[i].from
          /\ bundle.test_runs[j].n = doc.test_runs[i].n
\* gathering raised an error
GatherFailed == sub.errors > 0

\* exactly one combined bundle is handed to the dashboard, also after a
\* gathering error, which is recorded as a failed 'gather_results'
OneBundlePerJob ==
    /\ sub # <<>> => Len(sub.put) <= 1
    /\ SubmitOver =>
         /\ Len(sub.put) = 1
         /\ sub.results = <<[name |-> "gather_results",
                             status |-> IF GatherFailed THEN "fail"
                                        ELSE "pass"]>>
\* the test run of the job is the last entry of test_runs
JobRunLast ==
    SubmitOver =>
       LET runs == sub.put[1].test_runs
       IN  /\ runs[Len(runs)].from = "job"
           /\ \A i \in 1..(Len(runs) - 1) : runs[i].from # "job"
\* every document a gathering function had loaded is in the bundle
GatheredKept ==
    SubmitOver => \A doc \in sub.appended : PartOf(doc, sub.put[1])

\* C32: run submits exactly one combined bundle per job whatever happens
\* while gathering: an error from the device or from the host makes the
\* 'gather_results' result fail and does not stop the submission, the
\* bundles gathered before the error are part of the combined bundle, and
\* the test run of the job is the last entry of test_runs
C32_OneBundleWithAllGathered ==
    OneBundlePerJob /\ JobRunLast /\ GatheredKept

(***************************************************************************)
(* async_send_notifications: a background task per state transition of a   *)
(* job; the tasks of a job run in any order and interleave.                *)
(***************************************************************************)
\* tasks queued for the job
MaxTasks == 2
Tasks == 1..MaxTasks

\* criteria["status"] of the notify block
Criteria == {"running", "finished", "complete", "incomplete"}
\* notification_criteria(criteria, state, health, old_health)
NotificationCriteria(criteria, state, health) ==
    IF criteria = "running" THEN state = "Running"
    ELSE IF criteria = "finished" THEN state = "Finished"
    ELSE IF criteria = "complete" THEN health = "Complete"
    ELSE health = "Incomplete"

\* Notification(test_job=job).save(): the relation is one-to-one, a second
\* record for the job is refused with IntegrityError
CreateNotification(records) ==
    IF records = 0
    THEN [records |-> 1, raised |-> "none"]
    ELSE [records |-> records, raised |-> "IntegrityError"]

\* the state of everything but the notification tasks
notNotify == <<config, sub, pc, stack, exc, cause, bootState, extVars>>

\* a job is submitted; it may have been deleted by the time its tasks run
SubmitJob ==
    /\ pc = "idle"
    /\ note = <<>>
    /\ \E exists \in BOOLEAN, notify \in BOOLEAN, criteria \in Criteria :
         note' = [exists |-> exists,
                  notify |-> notify,
                  criteria |-> criteria,
                  state |-> "Submitted",
                  health |-> "Unknown",
                  records |-> 0,
                  creates |-> 0,
                  sent |-> {},
                  task |-> [t \in Tasks |->
                              [pc |-> "none", state |-> "Submitted",
                               health |-> "Unknown", job |-> <<>>,
                               found |-> FALSE]]]
    /\ UNCHANGED notNotify

\* the scheduler moves the job on
JobChanges ==
    /\ note # <<>>
    /\ \E state \in {"Running", "Finished"},
          health \in {"Unknown", "Complete", "Incomplete"} :
         /\ \/ note.state = "Submitted" /\ state = "Running"
            \/ note.state = "Running" /\ state = "Finished"
         /\ (health = "Unknown") = (state = "Running")
         /\ note' = [note EXCEPT !.state = state, !.health = health]
    /\ UNCHANGED notNotify

\* a task is queued with the state and health the job has; the queue may
\* hold more than one task for the same transition
QueueTask(t) ==
    /\ note # <<>>
    /\ note.state # "Submitted"
    /\ note.task[t].pc = "none"
    /\ note' = [note EXCEPT
                  !.task[t].pc = "queued",
                  !.task[t].state = note.state,
                  !.task[t].health = note.health]
    /\ UNCHANGED notNotify

\* job = TestJob.objects.get(id=job_id); DoesNotExist returns
TaskGetJob(t) ==
    /\ note # <<>>
    /\ note.task[t].pc = "queued"
    /\ note' = IF note.exists
               THEN [note EXCEPT
                       !.task[t].pc = "loaded",
                       !.task[t].job = [state |-> note.state,
                                        health |-> note.health]]
               ELSE [note EXCEPT !.task[t].pc = "done"]
    /\ UNCHANGED notNotify

\* if "notify" in job_def: if notification_criteria(...): job.state = state;
\* job.health = health, on the object in memory
TaskCriteriaOfStoredJob(t) ==
    /\ note # <<>>
    /\ note.task[t].pc = "loaded"
    /\ note' = IF /\ note.notify
                  /\ NotificationCriteria(note.criteria, note.task[t].job.state,
                                          note.task[t].job.health)
               THEN [note EXCEPT !.task[t].pc = "check"]
               ELSE [note EXCEPT !.task[t].pc = "done"]
    /\ UNCHANGED notNotify
TaskCriteria(t) ==
    /\ note # <<>>
    /\ note.task[t].pc = "loaded"
    /\ note' = IF /\ note.notify
                  /\ NotificationCriteria(note.criteria, note.task[t].state,
                                          note.task[t].health)
               THEN [note EXCEPT
                       !.task[t].pc = "check",
                       !.task[t].job = [state |-> note.task[t].state,
                                        health |-> note.task[t].health]]
               ELSE [note EXCEPT !.task[t].pc = "done"]
    /\ UNCHANGED notNotify

\* try: job.notification, except ObjectDoesNotExist
TaskNotification(t) ==
    /\ note # <<>>
    /\ note.task[t].pc = "check"
    /\ note' = [note EXCEPT
                  !.task[t].found = note.records > 0,
                  !.task[t].pc = IF note.records > 0 THEN "send"
                                 ELSE "create"]
    /\ UNCHANGED notNotify

\* create_notification(job, job_def["notify"])
TaskCreate(t) ==
    /\ note # <<>>
    /\ note.task[t].pc = "create"
    /\ LET c == CreateNotification(note.records)
       IN  note' = [note EXCEPT
                      !.records = c.records,
                      !.creates = @ + 1,
                      !.task[t].pc = IF c.raised = "none" THEN "send"
                                     ELSE "raised"]
    /\ UNCHANGED notNotify

\* send_notifications(job): the mail tells the state and health of the
\* object in memory
TaskSend(t) ==
    /\ note # <<>>
    /\ note.task[t].pc = "send"
    /\ note' = [note EXCEPT
                  !.sent = @ \cup {[task |-> t,
                                    state |-> note.task[t].job.state,
                                    health |-> note.task[t].job.health]},
                  !.task[t].pc = "done"]
    /\ UNCHANGED notNotify

NextNotify ==
    \/ SubmitJob
    \/ JobChanges
    \/ \E t \in Tasks :
         \/ QueueTask(t)
         \/ TaskGetJob(t)
         \/ TaskCriteria(t)
         \/ TaskNotification(t)
         \/ TaskCreate(t)
         \/ TaskSend(t)

\* the configuration of the device plays no part in the notification
SpecNotify == InitTransfer /\ [][NextNotify]_vars

\* every notification sent is for an existing job with a notify block whose
\* criteria hold for the state and health given to the task, and tells them
SentAsPassed ==
    note # <<>> =>
       \A m \in note.sent :
          /\ note.exists
          /\ note.notify
          /\ m.state = note.task[m.task].state
          /\ m.health = note.task[m.task].health
          /\ NotificationCriteria(note.criteria, m.state, m.health)
\* there is at most one notification record for the job
OneRecord == note # <<>> => note.records <= 1
\* a step of a task leaves the stored job as it is
NeverSaved ==
    (note # <<>> /\ \E t \in Tasks : note'.task[t].pc \notin
                                        {note.task[t].pc, "queued"}) =>
       /\ note'.state = note.state
       /\ note'.health = note.health
\* a task creates the record only after it found none, and the record then
\* stays
CreatedOnlyIfMissing ==
    (note # <<>> /\ note'.records # note.records) =>
       /\ note.records = 0
       /\ note'.records = 1
       /\ \E t \in Tasks : /\ note.task[t].pc = "create"
                             /\ ~note.task[t].found
                             /\ note'.task[t].pc = "send"

\* C33: async_send_notifications sends a notification only when the job
\* exists, its definition has a notify block and the criteria hold for the
\* state and health passed to the task; it evaluates and reports the passed
\* state and health even when the stored job has changed since; it never
\* saves the job; and the notification record of a job is created at most
\* once
C33_NotifiesAsPassedOnce ==
    /\ [](SentAsPassed /\ OneRecord)
    /\ [][NeverSaved /\ CreatedOnlyIfMissing]_vars
C33_Witness ==
    /\ note # <<>>
    /\ note.records = 1
    /\ note.creates = 1
    /\ \A t \in Tasks : note.task[t].pc = "done"
    /\ \E m \in note.sent : m.state = "Running" /\ note.state = "Finished"
    /\ Cardinality(note.sent) = 2
====
